---- MODULE Spec2Model ----
(***************************************************************************)
(* Incentive index engine and user reward accountant of the red-bank       *)
(* incentives contract (contracts/incentives/src/helpers.rs).              *)
(*                                                                         *)
(* Uint128 is modelled as 0..Uint128Max and Decimal by its atomics, an     *)
(* integer number of 1/DecimalFractional units (10^18 in cosmwasm_std).    *)
(* A StdResult is a record with fields ok and err; a Rust panic (overflow  *)
(* of an unchecked Uint128 / Decimal operation) aborts the call like an    *)
(* error does and is reported with err = "Panic".                          *)
(***************************************************************************)
EXTENDS Integers, Sequences, FiniteSets, TLC

\* ---------------------------------------------------------------- bounds
\* largest Uint128 of the model (2^128 - 1 in the code)
Uint128Max == 16777216
\* atomics per unit of a Decimal (10^18 in the code)
DecimalFractional == 4
\* block times run over 0..MaxTime
MaxTime == 2
\* a behaviour holds at most MaxOps balance changes and claims
MaxOps == 3

\* Option::None of a may_load
None == -1

Users == {"u1", "u2"}
\* the scaled collateral balances a user changes to
Amounts == {0, 1, 2}
Denoms == {"asset", "zero"}

Max(a, b) == IF a >= b THEN a ELSE b
Min(a, b) == IF a <= b THEN a ELSE b

\* ------------------------------------------------- fixed-point arithmetic
Ok(v) == [ok |-> TRUE, err |-> "", val |-> v]
Err(e) == [ok |-> FALSE, err |-> e, val |-> 0]

\* checked_mul as a wrapping multiplication
wrapping_mul(a, b) == Ok((a * b) % (Uint128Max + 1))

\* Uint128::checked_mul
checked_mul(a, b) == IF a * b > Uint128Max THEN Err("Overflow") ELSE Ok(a * b)
\* checked_sub as a saturating subtraction
saturating_sub(a, b) == Ok(IF a < b THEN 0 ELSE a - b)

\* Uint128::checked_sub
checked_sub(a, b) == IF a < b THEN Err("Overflow") ELSE Ok(a - b)

\* Uint128 + Uint128 (panics on overflow)
uint_add(a, b) == IF a + b > Uint128Max THEN Err("Panic") ELSE Ok(a + b)

\* Decimal::from_ratio: floor(numerator * 10^18 / denominator), panics on a
\* zero denominator and when the result does not fit
from_ratio(numerator, denominator) ==
    IF denominator = 0 THEN Err("Panic")
    ELSE IF (numerator * DecimalFractional) \div denominator > Uint128Max THEN Err("Panic")
    ELSE Ok((numerator * DecimalFractional) \div denominator)

\* Decimal + Decimal (panics on overflow)
decimal_add(a, b) == IF a + b > Uint128Max THEN Err("Panic") ELSE Ok(a + b)

\* Uint128 * Decimal: floor(amount * atomics / 10^18), panics on overflow
mul_decimal(amount, d) ==
    IF (amount * d) \div DecimalFractional > Uint128Max THEN Err("Panic")
    ELSE Ok((amount * d) \div DecimalFractional)

\* ------------------------------------------------ incentive index engine
\* An operator that needs the result of a call more than once takes it as a
\* parameter of a continuation (index_after_emission, ...): each is the rest
\* of the function named before it.
\* new_index = previous_index + ratio
index_after_ratio(previous_index, ratio) ==
    IF ~ratio.ok THEN ratio ELSE decimal_add(previous_index, ratio.val)

\* ratio = Decimal::from_ratio(emission_for_elapsed_seconds, total_amount_scaled)
index_after_emission(previous_index, total_amount_scaled, emission_for_elapsed_seconds) ==
    IF ~emission_for_elapsed_seconds.ok THEN emission_for_elapsed_seconds
    ELSE index_after_ratio(previous_index,
                           from_ratio(emission_for_elapsed_seconds.val, total_amount_scaled))
\* compute_asset_incentive_index taking time_end for the seconds elapsed
compute_asset_incentive_index_from_zero(previous_index, emission_per_second, total_amount_scaled, time_start, time_end) ==
    IF time_start > time_end THEN Err("Overflow")
    ELSE index_after_emission(previous_index, total_amount_scaled,
                              checked_mul(emission_per_second, time_end))


compute_asset_incentive_index(previous_index, emission_per_second, total_amount_scaled, time_start, time_end) ==
    IF time_start > time_end THEN Err("Overflow")
    ELSE index_after_emission(previous_index, total_amount_scaled,
                              checked_mul(emission_per_second, time_end - time_start))

\* the guard without the condition on the end of the incentive
index_advances_past_end(asset_incentive, total_amount_scaled, current_block_time) ==
    /\ current_block_time # asset_incentive.last_updated
    /\ current_block_time > asset_incentive.start_time
    /\ total_amount_scaled # 0
    /\ asset_incentive.emission_per_second # 0

\* the guard of update_asset_incentive_index
index_advances(asset_incentive, total_amount_scaled, current_block_time) ==
    /\ current_block_time # asset_incentive.last_updated
    /\ current_block_time > asset_incentive.start_time
    /\ asset_incentive.last_updated < asset_incentive.start_time + asset_incentive.duration
    /\ total_amount_scaled # 0
    /\ asset_incentive.emission_per_second # 0

\* set_index storing the end of the incentive as last_updated
set_index_end_time(asset_incentive, current_block_time, new_index) ==
    IF ~new_index.ok THEN [ok |-> FALSE, err |-> new_index.err, val |-> asset_incentive]
    ELSE Ok([asset_incentive EXCEPT !.index = new_index.val,
                                    !.last_updated = asset_incentive.start_time + asset_incentive.duration])

\* set_index leaving last_updated as it was
set_index_keeping_last_updated(asset_incentive, current_block_time, new_index) ==
    IF ~new_index.ok THEN [ok |-> FALSE, err |-> new_index.err, val |-> asset_incentive]
    ELSE Ok([asset_incentive EXCEPT !.index = new_index.val])

\* asset_incentive.index = new_index?; asset_incentive.last_updated = current_block_time
set_index(asset_incentive, current_block_time, new_index) ==
    IF ~new_index.ok THEN [ok |-> FALSE, err |-> new_index.err, val |-> asset_incentive]
    ELSE Ok([asset_incentive EXCEPT !.index = new_index.val,
                                    !.last_updated = current_block_time])
\* update_asset_incentive_index without the clamp of time_end to end_time_sec
update_asset_incentive_index_no_end_clamp(asset_incentive, total_amount_scaled, current_block_time) ==
    IF index_advances(asset_incentive, total_amount_scaled, current_block_time)
    THEN set_index(asset_incentive, current_block_time,
             compute_asset_incentive_index(
                 asset_incentive.index, asset_incentive.emission_per_second,
                 total_amount_scaled,
                 Max(asset_incentive.start_time, asset_incentive.last_updated),
                 current_block_time))
    ELSE Ok([asset_incentive EXCEPT !.last_updated = current_block_time])

\* update_asset_incentive_index setting last_updated only when the index advances
update_asset_incentive_index_skipping_noop(asset_incentive, total_amount_scaled, current_block_time) ==
    IF index_advances(asset_incentive, total_amount_scaled, current_block_time)
    THEN set_index(asset_incentive, current_block_time,
             compute_asset_incentive_index(
                 asset_incentive.index, asset_incentive.emission_per_second,
                 total_amount_scaled,
                 Max(asset_incentive.start_time, asset_incentive.last_updated),
                 Min(current_block_time,
                     asset_incentive.start_time + asset_incentive.duration)))
    ELSE Ok(asset_incentive)

\* returns the StdResult of the call; val is the incentive as the call leaves it
update_asset_incentive_index(asset_incentive, total_amount_scaled, current_block_time) ==
    IF index_advances(asset_incentive, total_amount_scaled, current_block_time)
    THEN set_index(asset_incentive, current_block_time,
             compute_asset_incentive_index(
                 asset_incentive.index, asset_incentive.emission_per_second,
                 total_amount_scaled,
                 Max(asset_incentive.start_time, asset_incentive.last_updated),
                 Min(current_block_time,
                     asset_incentive.start_time + asset_incentive.duration)))
    ELSE Ok([asset_incentive EXCEPT !.last_updated = current_block_time])

\* ------------------------------------------------ user reward accountant
\* (user_amount_scaled * asset_incentive_index).checked_sub(user_amount_scaled * user_asset_index)
sub_products(a, b) ==
    IF ~a.ok THEN a ELSE IF ~b.ok THEN b ELSE checked_sub(a.val, b.val)
\* compute_user_accrued_rewards without the subtraction of the user's part
compute_user_accrued_rewards_no_sub(user_amount_scaled, user_asset_index, asset_incentive_index) ==
    mul_decimal(user_amount_scaled, asset_incentive_index)


compute_user_accrued_rewards(user_amount_scaled, user_asset_index, asset_incentive_index) ==
    sub_products(mul_decimal(user_amount_scaled, asset_incentive_index),
                 mul_decimal(user_amount_scaled, user_asset_index))

\* --------------------------------------------------------------- storage
\* A store is the contract's three maps (the incentive denom is the single
\* reward denom, so a key is (user, collateral denom)):
\*   ASSET_INCENTIVES[denom]             an AssetIncentive record
\*   USER_ASSET_INDICES[user][denom]     a Decimal, or None when absent
\*   USER_UNCLAIMED_REWARDS[user][denom] a Uint128, or None when absent
\* A querier is the red bank as the contract sees it: up (queries answer),
\* user_collateral[user][denom] and collateral_total_scaled[denom].

\* Option::unwrap_or_else(zero) of a may_load
unwrap_or_zero(v) == IF v = None THEN 0 ELSE v

NoCollaterals == [some |-> FALSE, user_collateral |-> 0, total_collateral |-> 0]
SomeCollaterals(u, t) == [some |-> TRUE, user_collateral |-> u, total_collateral |-> t]

\* the Option<UserAssetIncentiveStatus> returned next to the rewards
NoStatus(asset_incentive) ==
    [some |-> FALSE, user_index_current |-> 0, asset_incentive_updated |-> asset_incentive]

NewRewards(ok, err, rewards, status) ==
    [ok |-> ok, err |-> err, rewards |-> rewards, status |-> status]

\* unclaimed_rewards = asset_accrued_rewards, and the status to update
rewards_with_status(asset_incentive, user_asset_index, asset_incentive_updated, asset_accrued_rewards) ==
    IF ~asset_accrued_rewards.ok
    THEN NewRewards(FALSE, asset_accrued_rewards.err, 0, NoStatus(asset_incentive))
    ELSE NewRewards(TRUE, "", asset_accrued_rewards.val,
                    [some |-> TRUE, user_index_current |-> user_asset_index,
                     asset_incentive_updated |-> asset_incentive_updated])

\* after update_asset_incentive_index: the user's rewards when the indices differ
accrue_since_user_index(asset_incentive, user_collateral, user_asset_index, updated) ==
    IF ~updated.ok THEN NewRewards(FALSE, updated.err, 0, NoStatus(asset_incentive))
    ELSE rewards_with_status(asset_incentive, user_asset_index, updated.val,
             IF user_asset_index # updated.val.index
             THEN compute_user_accrued_rewards(user_collateral, user_asset_index,
                                               updated.val.index)
             ELSE Ok(0))
\* accrue_for_balances without the early return on a zero balance
accrue_for_balances_no_skip(store, block_time, user_addr, collateral_denom, asset_incentive, user_collateral, total_collateral) ==
    accrue_since_user_index(asset_incentive, user_collateral,
        unwrap_or_zero(store.USER_ASSET_INDICES[user_addr][collateral_denom]),
        update_asset_incentive_index(asset_incentive, total_collateral, block_time))

\* with the user's balance and the total supply known
accrue_for_balances(store, block_time, user_addr, collateral_denom, asset_incentive, user_collateral, total_collateral) ==
    IF user_collateral = 0 THEN NewRewards(TRUE, "", 0, NoStatus(asset_incentive))
    ELSE accrue_since_user_index(asset_incentive, user_collateral,
             unwrap_or_zero(store.USER_ASSET_INDICES[user_addr][collateral_denom]),
             update_asset_incentive_index(asset_incentive, total_collateral, block_time))

compute_new_user_unclaimed_rewards(store, querier, block_time, user_addr, collateral_denom, asset_incentive, collaterals) ==
    IF collaterals.some
    THEN accrue_for_balances(store, block_time, user_addr, collateral_denom, asset_incentive,
                             collaterals.user_collateral, collaterals.total_collateral)
    ELSE IF ~querier.up THEN NewRewards(FALSE, "QueryErr", 0, NoStatus(asset_incentive))
    ELSE accrue_for_balances(store, block_time, user_addr, collateral_denom, asset_incentive,
                             querier.user_collateral[user_addr][collateral_denom],
                             querier.collateral_total_scaled[collateral_denom])

\* the result of update_user_rewards: the store as the call leaves it (also
\* when it fails), and the tuple (previous_rewards, current_rewards,
\* new_asset_incentive) it returns
Settled(ok, err, store, previous_rewards, current_rewards, asset_incentive) ==
    [ok |-> ok, err |-> err, store |-> store, previous_rewards |-> previous_rewards,
     current_rewards |-> current_rewards, asset_incentive |-> asset_incentive]
\* save_rewards_and_indices saving the user's index whether or not there is a status
save_rewards_and_indices_always_index(store, user_addr, collateral_denom, asset_incentive, clear_rewards, previous_rewards, status, current_rewards) ==
    IF ~current_rewards.ok
    THEN Settled(FALSE, current_rewards.err, store, previous_rewards, 0, asset_incentive)
    ELSE Settled(TRUE, "",
             [store EXCEPT
                 !.USER_UNCLAIMED_REWARDS[user_addr][collateral_denom] =
                     IF clear_rewards THEN 0 ELSE current_rewards.val,
                 !.ASSET_INCENTIVES[collateral_denom] =
                     IF status.some THEN status.asset_incentive_updated ELSE @,
                 !.USER_ASSET_INDICES[user_addr][collateral_denom] =
                     status.asset_incentive_updated.index],
             previous_rewards, current_rewards.val,
             IF status.some THEN status.asset_incentive_updated ELSE asset_incentive)

\* save_rewards_and_indices never saving the user's index
save_rewards_and_indices_no_index(store, user_addr, collateral_denom, asset_incentive, clear_rewards, previous_rewards, status, current_rewards) ==
    IF ~current_rewards.ok
    THEN Settled(FALSE, current_rewards.err, store, previous_rewards, 0, asset_incentive)
    ELSE Settled(TRUE, "",
             [store EXCEPT
                 !.USER_UNCLAIMED_REWARDS[user_addr][collateral_denom] =
                     IF clear_rewards THEN 0 ELSE current_rewards.val,
                 !.ASSET_INCENTIVES[collateral_denom] =
                     IF status.some THEN status.asset_incentive_updated ELSE @],
             previous_rewards, current_rewards.val,
             IF status.some THEN status.asset_incentive_updated ELSE asset_incentive)

\* save_rewards_and_indices saving the incentive before the rewards are added up
save_rewards_and_indices_incentive_first(store, user_addr, collateral_denom, asset_incentive, clear_rewards, previous_rewards, status, current_rewards) ==
    IF ~current_rewards.ok
    THEN Settled(FALSE, current_rewards.err,
             [store EXCEPT !.ASSET_INCENTIVES[collateral_denom] =
                               IF status.some THEN status.asset_incentive_updated ELSE @],
             previous_rewards, 0, asset_incentive)
    ELSE Settled(TRUE, "",
             [store EXCEPT
                 !.USER_UNCLAIMED_REWARDS[user_addr][collateral_denom] =
                     IF clear_rewards THEN 0 ELSE current_rewards.val,
                 !.ASSET_INCENTIVES[collateral_denom] =
                     IF status.some THEN status.asset_incentive_updated ELSE @,
                 !.USER_ASSET_INDICES[user_addr][collateral_denom] =
                     IF /\ status.some
                        /\ status.asset_incentive_updated.index # status.user_index_current
                     THEN status.asset_incentive_updated.index
                     ELSE @],
             previous_rewards, current_rewards.val,
             IF status.some THEN status.asset_incentive_updated ELSE asset_incentive)

\* save_rewards_and_indices never saving the advanced incentive
save_rewards_and_indices_no_incentive(store, user_addr, collateral_denom, asset_incentive, clear_rewards, previous_rewards, status, current_rewards) ==
    IF ~current_rewards.ok
    THEN Settled(FALSE, current_rewards.err, store, previous_rewards, 0, asset_incentive)
    ELSE Settled(TRUE, "",
             [store EXCEPT
                 !.USER_UNCLAIMED_REWARDS[user_addr][collateral_denom] =
                     IF clear_rewards THEN 0 ELSE current_rewards.val,
                 !.USER_ASSET_INDICES[user_addr][collateral_denom] =
                     IF /\ status.some
                        /\ status.asset_incentive_updated.index # status.user_index_current
                     THEN status.asset_incentive_updated.index
                     ELSE @],
             previous_rewards, current_rewards.val,
             IF status.some THEN status.asset_incentive_updated ELSE asset_incentive)

\* save_rewards_and_indices returning the rewards it stored as current_rewards
save_rewards_and_indices_returning_stored(store, user_addr, collateral_denom, asset_incentive, clear_rewards, previous_rewards, status, current_rewards) ==
    IF ~current_rewards.ok
    THEN Settled(FALSE, current_rewards.err, store, previous_rewards, 0, asset_incentive)
    ELSE Settled(TRUE, "",
             [store EXCEPT
                 !.USER_UNCLAIMED_REWARDS[user_addr][collateral_denom] =
                     IF clear_rewards THEN 0 ELSE current_rewards.val,
                 !.ASSET_INCENTIVES[collateral_denom] =
                     IF status.some THEN status.asset_incentive_updated ELSE @,
                 !.USER_ASSET_INDICES[user_addr][collateral_denom] =
                     IF /\ status.some
                        /\ status.asset_incentive_updated.index # status.user_index_current
                     THEN status.asset_incentive_updated.index
                     ELSE @],
             previous_rewards, IF clear_rewards THEN 0 ELSE current_rewards.val,
             IF status.some THEN status.asset_incentive_updated ELSE asset_incentive)

\* the saves of update_user_rewards: the rewards, then the incentive when there
\* is a status, then the user's index when it differs from the incentive's
save_rewards_and_indices(store, user_addr, collateral_denom, asset_incentive, clear_rewards, previous_rewards, status, current_rewards) ==
    IF ~current_rewards.ok
    THEN Settled(FALSE, current_rewards.err, store, previous_rewards, 0, asset_incentive)
    ELSE Settled(TRUE, "",
             [store EXCEPT
                 !.USER_UNCLAIMED_REWARDS[user_addr][collateral_denom] =
                     IF clear_rewards THEN 0 ELSE current_rewards.val,
                 !.ASSET_INCENTIVES[collateral_denom] =
                     IF status.some THEN status.asset_incentive_updated ELSE @,
                 !.USER_ASSET_INDICES[user_addr][collateral_denom] =
                     IF /\ status.some
                        /\ status.asset_incentive_updated.index # status.user_index_current
                     THEN status.asset_incentive_updated.index
                     ELSE @],
             previous_rewards, current_rewards.val,
             IF status.some THEN status.asset_incentive_updated ELSE asset_incentive)
\* add_new_rewards returning the new rewards without the previous ones
add_new_rewards_dropping_previous(store, user_addr, collateral_denom, asset_incentive, clear_rewards, previous_rewards, new) ==
    IF ~new.ok THEN Settled(FALSE, new.err, store, previous_rewards, 0, asset_incentive)
    ELSE save_rewards_and_indices(store, user_addr, collateral_denom, asset_incentive,
             clear_rewards, previous_rewards, new.status, uint_add(0, new.rewards))

\* current_rewards = previous_rewards + new_unclaimed_rewards
add_new_rewards(store, user_addr, collateral_denom, asset_incentive, clear_rewards, previous_rewards, new) ==
    IF ~new.ok THEN Settled(FALSE, new.err, store, previous_rewards, 0, asset_incentive)
    ELSE save_rewards_and_indices(store, user_addr, collateral_denom, asset_incentive,
             clear_rewards, previous_rewards, new.status,
             uint_add(previous_rewards, new.rewards))

update_user_rewards(store, querier, block_time, user_addr, collateral_denom, asset_incentive, collaterals, clear_rewards) ==
    add_new_rewards(store, user_addr, collateral_denom, asset_incentive, clear_rewards,
        unwrap_or_zero(store.USER_UNCLAIMED_REWARDS[user_addr][collateral_denom]),
        compute_new_user_unclaimed_rewards(store, querier, block_time, user_addr,
                                           collateral_denom, asset_incentive, collaterals))

\* ------------------------------------------------------ claim and query
\* the collateral denoms with an incentive, in ascending key order
DenomSeq == <<"asset", "zero">>

ClaimResult(ok, err, store, total) == [ok |-> ok, err |-> err, store |-> store, total |-> total]

RECURSIVE claim_loop(_, _, _, _, _, _)

\* total_unclaimed_rewards += unclaimed_rewards, then the next denom
claim_next(querier, block_time, user_addr, denoms, r, sum) ==
    IF ~r.ok THEN ClaimResult(FALSE, r.err, r.store, 0)
    ELSE IF ~sum.ok THEN ClaimResult(FALSE, sum.err, r.store, 0)
    ELSE claim_loop(r.store, querier, block_time, user_addr, denoms, sum.val)

claim_settled(querier, block_time, user_addr, denoms, total, r) ==
    claim_next(querier, block_time, user_addr, denoms, r, uint_add(total, r.current_rewards))

\* settles the denoms of `denoms` one after the other with clear_rewards = true
\* and adds up what update_user_rewards returns as current_rewards
claim_loop(store, querier, block_time, user_addr, denoms, total) ==
    IF denoms = <<>> THEN ClaimResult(TRUE, "", store, total)
    ELSE claim_settled(querier, block_time, user_addr, Tail(denoms), total,
             update_user_rewards(store, querier, block_time, user_addr, Head(denoms),
                                 store.ASSET_INCENTIVES[Head(denoms)], NoCollaterals, TRUE))

\* the response: the store the claim commits (the store it started from
\* when it fails), the total, and the bank message unless the total is zero
claim_response(store, user_addr, r) ==
    [ok |-> r.ok, err |-> r.err,
     store |-> IF r.ok THEN r.store ELSE store,
     total |-> r.total,
     messages |-> IF r.ok /\ r.total # 0
                  THEN <<[to_address |-> user_addr, amount |-> r.total]>>
                  ELSE <<>>]

execute_claim_rewards(store, querier, block_time, user_addr) ==
    claim_response(store, user_addr,
                   claim_loop(store, querier, block_time, user_addr, DenomSeq, 0))

RECURSIVE query_loop(_, _, _, _, _, _)

query_next(store, querier, block_time, user_addr, denoms, sum) ==
    IF ~sum.ok THEN sum
    ELSE query_loop(store, querier, block_time, user_addr, denoms, sum.val)

query_add(store, querier, block_time, user_addr, denoms, total, unclaimed) ==
    IF ~unclaimed.ok THEN unclaimed
    ELSE query_next(store, querier, block_time, user_addr, denoms,
                    uint_add(total, unclaimed.val))

\* stored unclaimed rewards + newly accrued rewards of one denom
query_denom(store, querier, block_time, user_addr, denoms, total, stored, new) ==
    IF ~new.ok THEN Err(new.err)
    ELSE query_add(store, querier, block_time, user_addr, denoms, total,
                   uint_add(stored, new.rewards))

query_loop(store, querier, block_time, user_addr, denoms, total) ==
    IF denoms = <<>> THEN Ok(total)
    ELSE query_denom(store, querier, block_time, user_addr, Tail(denoms), total,
             unwrap_or_zero(store.USER_UNCLAIMED_REWARDS[user_addr][Head(denoms)]),
             compute_new_user_unclaimed_rewards(store, querier, block_time, user_addr,
                 Head(denoms), store.ASSET_INCENTIVES[Head(denoms)], NoCollaterals))

query_user_unclaimed_rewards(store, querier, block_time, user_addr) ==
    query_loop(store, querier, block_time, user_addr, DenomSeq, 0)

\* ------------------------------------------------ red bank: user health
\* The three guards of health.rs read one user's records and ask the
\* collaborators; `deps` is what they see:
\*   COLLATERALS[denom]  the user's Collateral entry, or NoCollateral
\*   DEBTS[denom]        the user's scaled debt, or None
\*   MARKETS[denom]      the Market of the denom, or NoMarket
\*   limit[denom]        the user's uncollateralized loan limit
\*   ma_balance[denom]   the user's balance of the market's ma token
\*   price[denom]        the oracle's price, or None when the query fails
\*   order               the order in which the hash containers enumerate denoms
BankDenoms == {"uatom", "uosmo"}

Position(denom, collateral_amount, debt_amount, max_ltv, liquidation_threshold, asset_price) ==
    [some |-> TRUE, denom |-> denom, collateral_amount |-> collateral_amount,
     debt_amount |-> debt_amount, uncollateralized_debt |-> FALSE, max_ltv |-> max_ltv,
     liquidation_threshold |-> liquidation_threshold, asset_price |-> asset_price]

Market(max_loan_to_value, liquidation_threshold, liquidity_index, borrow_index) ==
    [some |-> TRUE, max_loan_to_value |-> max_loan_to_value,
     liquidation_threshold |-> liquidation_threshold,
     liquidity_index |-> liquidity_index, borrow_index |-> borrow_index]

\* Option::None of a record: of a Collateral entry, of a Market, of a Position
NoCollateral == [some |-> FALSE, enabled |-> FALSE]
NoMarket == [some |-> FALSE]
NoPosition == [some |-> FALSE]

\* an empty HashMap<String, Position>: no denom has an entry
NoPositions == [d \in BankDenoms |-> NoPosition]

\* the subtraction of the limit left out
uint_sub_nothing(a, b) == a

\* Uint128::saturating_sub
uint_saturating_sub(a, b) == IF a < b THEN 0 ELSE a - b

\* scaled collateral -> underlying amount, by the market's liquidity index
get_underlying_liquidity_amount(amount_scaled, market) ==
    mul_decimal(amount_scaled, market.liquidity_index)

\* scaled debt -> underlying amount, by the market's borrow index
get_underlying_debt_amount(amount_scaled, market) ==
    mul_decimal(amount_scaled, market.borrow_index)

\* oracle::helpers::query_price
query_price(deps, denom) ==
    IF deps.price[denom] = None THEN Err("QueryPrice") ELSE Ok(deps.price[denom])

\* the Position of one denom, once its amounts and price are known
position_priced(denom, market, collateral_amount, debt_amount, asset_price) ==
    IF ~asset_price.ok THEN asset_price
    ELSE Ok(Position(denom, collateral_amount, debt_amount, market.max_loan_to_value,
                     market.liquidation_threshold, asset_price.val))

\* debt_amount: zero without a debt entry, else the underlying amount less the
\* uncollateralized loan limit, floored at zero
position_with_debt(deps, denom, market, collateral_amount, amount) ==
    IF ~amount.ok THEN amount
    ELSE position_priced(denom, market, collateral_amount,
             IF deps.DEBTS[denom] = None THEN 0
             ELSE uint_saturating_sub(amount.val, deps.limit[denom]),
             query_price(deps, denom))

\* collateral_amount is known; next the debt
position_with_collateral(deps, denom, market, collateral_amount) ==
    IF ~collateral_amount.ok THEN collateral_amount
    ELSE position_with_debt(deps, denom, market, collateral_amount.val,
             IF deps.DEBTS[denom] = None THEN Ok(0)
             ELSE get_underlying_debt_amount(deps.DEBTS[denom], market))

\* position_of_market counting a collateral entry whether enabled or not
position_of_market_ignoring_enabled(deps, denom, market) ==
    IF ~market.some THEN Err("NotFound")
    ELSE position_with_collateral(deps, denom, market,
             IF deps.COLLATERALS[denom].some
             THEN get_underlying_liquidity_amount(deps.ma_balance[denom], market)
             ELSE Ok(0))

\* position_of_market defaulting the parameters of a missing market
position_of_market_defaulting(deps, denom, market) ==
    IF ~market.some
    THEN position_with_collateral(deps, denom,
             Market(0, 0, DecimalFractional, DecimalFractional), Ok(0))
    ELSE position_with_collateral(deps, denom, market,
             IF deps.COLLATERALS[denom].some /\ deps.COLLATERALS[denom].enabled
             THEN get_underlying_liquidity_amount(deps.ma_balance[denom], market)
             ELSE Ok(0))

\* collateral_amount: zero unless a collateral entry exists and is enabled
position_of_market(deps, denom, market) ==
    IF ~market.some THEN Err("NotFound")
    ELSE position_with_collateral(deps, denom, market,
             IF deps.COLLATERALS[denom].some /\ deps.COLLATERALS[denom].enabled
             THEN get_underlying_liquidity_amount(deps.ma_balance[denom], market)
             ELSE Ok(0))

RECURSIVE positions_loop(_, _, _)
\* collect() stops at the first denom whose position is an error
positions_insert(deps, denoms, acc, position) ==
    IF ~position.ok THEN [ok |-> FALSE, err |-> position.err, val |-> NoPositions]
    ELSE positions_loop(deps, Tail(denoms), [acc EXCEPT ![Head(denoms)] = position.val])

\* positions_loop over the denoms with a collateral entry only
positions_loop_collateral_only(deps, denoms, acc) ==
    IF denoms = <<>> THEN Ok(acc)
    ELSE IF ~deps.COLLATERALS[Head(denoms)].some
         THEN positions_loop(deps, Tail(denoms), acc)
         ELSE positions_insert(deps, denoms, acc,
                  position_of_market(deps, Head(denoms), deps.MARKETS[Head(denoms)]))

\* the denoms with a collateral or a debt entry, each once
positions_loop(deps, denoms, acc) ==
    IF denoms = <<>> THEN Ok(acc)
    ELSE IF ~deps.COLLATERALS[Head(denoms)].some /\ deps.DEBTS[Head(denoms)] = None
         THEN positions_loop(deps, Tail(denoms), acc)
         ELSE positions_insert(deps, denoms, acc,
                  position_of_market(deps, Head(denoms), deps.MARKETS[Head(denoms)]))

get_user_positions_map(deps) == positions_loop(deps, deps.order, NoPositions)

\* ---- mars_health::health (Decimal arithmetic, checked)
decimal_checked_mul(a, b) ==
    IF a # 0 /\ b > (Uint128Max * DecimalFractional + DecimalFractional - 1) \div a
    THEN Err("Overflow")
    ELSE Ok((a * b) \div DecimalFractional)

decimal_checked_add(a, b) == IF a + b > Uint128Max THEN Err("Overflow") ELSE Ok(a + b)

decimal_checked_div(a, b) ==
    IF b = 0 THEN Err("DivideByZero")
    ELSE IF (a * DecimalFractional) \div b > Uint128Max THEN Err("Overflow")
    ELSE Ok((a * DecimalFractional) \div b)

HealthPosition(denom, collateral_amount, debt_amount, price, max_ltv, liquidation_threshold) ==
    [denom |-> denom, collateral_amount |-> collateral_amount, debt_amount |-> debt_amount,
     price |-> price, max_ltv |-> max_ltv, liquidation_threshold |-> liquidation_threshold]

Health(total_debt_value, total_collateral_value, max_ltv_adjusted_collateral, liquidation_threshold_adjusted_collateral, max_ltv_health_factor, liquidation_health_factor) ==
    [total_debt_value |-> total_debt_value, total_collateral_value |-> total_collateral_value,
     max_ltv_adjusted_collateral |-> max_ltv_adjusted_collateral,
     liquidation_threshold_adjusted_collateral |-> liquidation_threshold_adjusted_collateral,
     max_ltv_health_factor |-> max_ltv_health_factor,
     liquidation_health_factor |-> liquidation_health_factor]

\* the sums before any position is added
NoTotals == Health(0, 0, 0, 0, None, None)

\* the two health factors of a user with debt
health_borrowing(h, max_ltv_hf, liq_threshold_hf) ==
    IF ~max_ltv_hf.ok THEN max_ltv_hf
    ELSE IF ~liq_threshold_hf.ok THEN liq_threshold_hf
    ELSE Ok([h EXCEPT !.max_ltv_health_factor = max_ltv_hf.val,
                      !.liquidation_health_factor = liq_threshold_hf.val])

\* both health factors are undefined (None) when the total debt is zero
health_factors(h) ==
    IF h.total_debt_value = 0 THEN Ok(h)
    ELSE health_borrowing(h,
             decimal_checked_div(h.max_ltv_adjusted_collateral, h.total_debt_value),
             decimal_checked_div(h.liquidation_threshold_adjusted_collateral,
                                 h.total_debt_value))

RECURSIVE health_loop(_, _)
health_sum(positions, total_debt, total_collateral, max_ltv_adjusted, liq_adjusted) ==
    IF ~total_debt.ok THEN total_debt
    ELSE IF ~total_collateral.ok THEN total_collateral
    ELSE IF ~max_ltv_adjusted.ok THEN max_ltv_adjusted
    ELSE IF ~liq_adjusted.ok THEN liq_adjusted
    ELSE health_loop(Tail(positions),
             Health(total_debt.val, total_collateral.val, max_ltv_adjusted.val,
                    liq_adjusted.val, None, None))

\* collateral_value weighted by max_ltv and by liquidation_threshold
health_weigh(positions, h, collateral_value, debt_value, by_max_ltv, by_liq_threshold) ==
    IF ~by_max_ltv.ok THEN by_max_ltv
    ELSE IF ~by_liq_threshold.ok THEN by_liq_threshold
    ELSE health_sum(positions,
             decimal_checked_add(h.total_debt_value, debt_value),
             decimal_checked_add(h.total_collateral_value, collateral_value),
             decimal_checked_add(h.max_ltv_adjusted_collateral, by_max_ltv.val),
             decimal_checked_add(h.liquidation_threshold_adjusted_collateral,
                                 by_liq_threshold.val))

\* value = amount * price
health_value(positions, h, collateral_value, debt_value) ==
    IF ~collateral_value.ok THEN collateral_value
    ELSE IF ~debt_value.ok THEN debt_value
    ELSE health_weigh(positions, h, collateral_value.val, debt_value.val,
             decimal_checked_mul(collateral_value.val, Head(positions).max_ltv),
             decimal_checked_mul(collateral_value.val, Head(positions).liquidation_threshold))

health_loop(positions, h) ==
    IF positions = <<>> THEN health_factors(h)
    ELSE health_value(positions, h,
             decimal_checked_mul(Head(positions).collateral_amount, Head(positions).price),
             decimal_checked_mul(Head(positions).debt_amount, Head(positions).price))

\* Health::compute_health
compute_health(positions) == health_loop(positions, NoTotals)

\* Health::is_liquidatable
is_liquidatable(health) ==
    health.liquidation_health_factor # None
        /\ health.liquidation_health_factor < DecimalFractional

\* Health::is_above_max_ltv
is_above_max_ltv(health) ==
    health.max_ltv_health_factor # None /\ health.max_ltv_health_factor < DecimalFractional

\* ---- health.rs
\* the HealthPosition of a Position taking its debt from collateral_amount
health_position_debt_from_collateral(p, collateral_amount, debt_amount) ==
    IF ~collateral_amount.ok THEN collateral_amount
    ELSE IF ~debt_amount.ok THEN debt_amount
    ELSE Ok(HealthPosition(p.denom, collateral_amount.val, collateral_amount.val, p.asset_price,
                           p.max_ltv, p.liquidation_threshold))

\* the HealthPosition of a Position, empty when its debt is marked uncollateralized
health_position_skipping_uncollateralized(p, collateral_amount, debt_amount) ==
    IF ~collateral_amount.ok THEN collateral_amount
    ELSE IF ~debt_amount.ok THEN debt_amount
    ELSE IF p.uncollateralized_debt
         THEN Ok(HealthPosition(p.denom, 0, 0, p.asset_price, p.max_ltv,
                                p.liquidation_threshold))
         ELSE Ok(HealthPosition(p.denom, collateral_amount.val, debt_amount.val,
                                p.asset_price, p.max_ltv, p.liquidation_threshold))

\* the HealthPosition of a Position; the amounts are Decimal::from_ratio(amount, 1)
health_position(p, collateral_amount, debt_amount) ==
    IF ~collateral_amount.ok THEN collateral_amount
    ELSE IF ~debt_amount.ok THEN debt_amount
    ELSE Ok(HealthPosition(p.denom, collateral_amount.val, debt_amount.val, p.asset_price,
                           p.max_ltv, p.liquidation_threshold))

RECURSIVE health_positions(_, _, _)
\* health_positions_push keeping the position enumerated last only
health_positions_push_replacing(positions, denoms, acc, hp) ==
    IF ~hp.ok THEN hp ELSE health_positions(positions, Tail(denoms), <<hp.val>>)

health_positions_push(positions, denoms, acc, hp) ==
    IF ~hp.ok THEN hp ELSE health_positions(positions, Tail(denoms), Append(acc, hp.val))

\* positions.values().map(...).collect::<Vec<_>>()
health_positions(positions, denoms, acc) ==
    IF denoms = <<>> THEN Ok(acc)
    ELSE IF ~positions[Head(denoms)].some THEN health_positions(positions, Tail(denoms), acc)
    ELSE health_positions_push(positions, denoms, acc,
             health_position(positions[Head(denoms)],
                 from_ratio(positions[Head(denoms)].collateral_amount, 1),
                 from_ratio(positions[Head(denoms)].debt_amount, 1)))

health_of(health_positions_vec) ==
    IF ~health_positions_vec.ok THEN health_positions_vec
    ELSE compute_health(health_positions_vec.val)

compute_position_health(positions, order) ==
    health_of(health_positions(positions, order, <<>>))

\* the guards take `deps: Deps`, a shared reference: what is stored after a
\* guard has run, here with the hypothetical amount written to the stored debt
deps_after_committing(deps, denom, amount) ==
    [deps EXCEPT !.DEBTS[denom] = (IF @ = None THEN 0 ELSE @) + amount + 1]

\* what is stored after a guard has run
deps_after(deps, denom, amount) == deps

\* what a guard returns: the verdict, with the positions map it judged (the
\* map is transient; assert_liquidatable hands it to its caller)
GuardOk(verdict, positions) ==
    [ok |-> TRUE, err |-> "", val |-> verdict, positions |-> positions]
GuardErr(e) == [ok |-> FALSE, err |-> e, val |-> FALSE, positions |-> NoPositions]

\* assert_liquidatable judging by is_above_max_ltv
liquidatable_verdict_by_max_ltv(positions, health) ==
    IF ~health.ok THEN GuardErr(health.err)
    ELSE GuardOk(is_above_max_ltv(health.val), positions)

\* Ok((health.is_liquidatable(), positions))
liquidatable_verdict(positions, health) ==
    IF ~health.ok THEN GuardErr(health.err)
    ELSE GuardOk(is_liquidatable(health.val), positions)

liquidatable_of_positions(positions, order) ==
    IF ~positions.ok THEN GuardErr(positions.err)
    ELSE liquidatable_verdict(positions.val, compute_position_health(positions.val, order))

assert_liquidatable(deps) ==
    liquidatable_of_positions(get_user_positions_map(deps), deps.order)

\* the withdraw check judging by is_above_max_ltv
withdraw_verdict_by_max_ltv(positions, health) ==
    IF ~health.ok THEN GuardErr(health.err)
    ELSE GuardOk(~is_above_max_ltv(health.val), positions)

\* Ok(!health.is_liquidatable())
withdraw_verdict(positions, health) ==
    IF ~health.ok THEN GuardErr(health.err)
    ELSE GuardOk(~is_liquidatable(health.val), positions)

health_after_withdraw(positions, order) ==
    withdraw_verdict(positions, compute_position_health(positions, order))

\* p.collateral_amount = p.collateral_amount.checked_sub(withdraw_amount)?
withdraw_collateral(positions, order, denom, collateral_amount) ==
    IF ~collateral_amount.ok THEN GuardErr(collateral_amount.err)
    ELSE health_after_withdraw(
             [positions EXCEPT ![denom].collateral_amount = collateral_amount.val], order)

\* the withdraw check flooring the collateral at zero
withdraw_from_positions_flooring(positions, order, denom, withdraw_amount) ==
    IF ~positions.ok THEN GuardErr(positions.err)
    ELSE IF ~positions.val[denom].some THEN GuardErr("No User Balance")
    ELSE withdraw_collateral(positions.val, order, denom,
             saturating_sub(positions.val[denom].collateral_amount, withdraw_amount))

\* match positions.get_mut(denom)
withdraw_from_positions(positions, order, denom, withdraw_amount) ==
    IF ~positions.ok THEN GuardErr(positions.err)
    ELSE IF ~positions.val[denom].some THEN GuardErr("No User Balance")
    ELSE withdraw_collateral(positions.val, order, denom,
             checked_sub(positions.val[denom].collateral_amount, withdraw_amount))

assert_below_liq_threshold_after_withdraw(deps, denom, withdraw_amount) ==
    withdraw_from_positions(get_user_positions_map(deps), deps.order, denom, withdraw_amount)

\* the borrow check judging by is_liquidatable
borrow_verdict_by_liq_threshold(positions, health) ==
    IF ~health.ok THEN GuardErr(health.err)
    ELSE GuardOk(~is_liquidatable(health.val), positions)

\* Ok(!health.is_above_max_ltv())
borrow_verdict(positions, health) ==
    IF ~health.ok THEN GuardErr(health.err)
    ELSE GuardOk(~is_above_max_ltv(health.val), positions)

health_after_borrow(positions, order) ==
    borrow_verdict(positions, compute_position_health(positions, order))

\* .debt_amount += borrow_amount
borrow_debt(positions, order, denom, debt_amount) ==
    IF ~debt_amount.ok THEN GuardErr(debt_amount.err)
    ELSE health_after_borrow([positions EXCEPT ![denom].debt_amount = debt_amount.val], order)

\* or_insert with the Position of the other denom's price
or_insert_position_other_price(positions, order, denom, borrow_amount, asset_price) ==
    IF positions[denom].some
    THEN borrow_debt(positions, order, denom,
                     uint_add(positions[denom].debt_amount, borrow_amount))
    ELSE borrow_debt(
             [positions EXCEPT ![denom] =
                  Position(denom, 0, 0, 0, 0,
                      IF \E o \in BankDenoms : o # denom /\ positions[o].some
                      THEN positions[CHOOSE o \in BankDenoms :
                                         o # denom /\ positions[o].some].asset_price
                      ELSE asset_price)],
             order, denom, uint_add(0, borrow_amount))

\* or_insert, then the amount taken off the debt of the entry
or_insert_position_repaying(positions, order, denom, borrow_amount, asset_price) ==
    IF positions[denom].some
    THEN borrow_debt(positions, order, denom,
                     saturating_sub(positions[denom].debt_amount, borrow_amount))
    ELSE borrow_debt([positions EXCEPT ![denom] = Position(denom, 0, 0, 0, 0, asset_price)],
                     order, denom, uint_add(0, borrow_amount))

\* positions.entry(denom).or_insert(Position { denom, debt_amount: zero,
\* asset_price, ..Default::default() })
or_insert_position(positions, order, denom, borrow_amount, asset_price) ==
    IF positions[denom].some
    THEN borrow_debt(positions, order, denom,
                     uint_add(positions[denom].debt_amount, borrow_amount))
    ELSE borrow_debt([positions EXCEPT ![denom] = Position(denom, 0, 0, 0, 0, asset_price)],
                     order, denom, uint_add(0, borrow_amount))

\* the argument of or_insert is evaluated whether or not the entry exists
borrow_from_positions(positions, order, denom, borrow_amount, asset_price) ==
    IF ~positions.ok THEN GuardErr(positions.err)
    ELSE IF ~asset_price.ok THEN GuardErr(asset_price.err)
    ELSE or_insert_position(positions.val, order, denom, borrow_amount, asset_price.val)

assert_below_max_ltv_after_borrow(deps, denom, borrow_amount) ==
    borrow_from_positions(get_user_positions_map(deps), deps.order, denom, borrow_amount,
                          query_price(deps, denom))

\* ------------------------------------------- rewards collector: routes
DEFAULT_LIMIT == 5
MAX_LIMIT == 10

\* denoms are the bytes of their strings; a key of `routes` is (denom_in, denom_out)
RouteDenomsIn == {<<1>>, <<2>>, <<1, 1>>, <<2, 1>>}
RouteDenomsOut == {<<1>>, <<2>>, <<1, 2>>}
RouteKeys == RouteDenomsIn \X RouteDenomsOut

\* the storage key of a composite key: the length of denom_in on two bytes,
\* denom_in, then denom_out
joined_key(k) == <<0, Len(k[1])>> \o k[1] \o k[2]

\* storage keys are ordered as byte strings
RECURSIVE bytes_less(_, _)
bytes_less(a, b) ==
    IF b = <<>> THEN FALSE
    ELSE IF a = <<>> THEN TRUE
    ELSE IF Head(a) # Head(b) THEN Head(a) < Head(b)
    ELSE bytes_less(Tail(a), Tail(b))

key_less(j, k) == bytes_less(joined_key(j), joined_key(k))

\* Option<(String, String)>
NoStart == [some |-> FALSE]
StartAfter(k) == [some |-> TRUE, key |-> k]

\* the keys at or after the cursor
bound_inclusive(keys, start_after) ==
    IF ~start_after.some THEN keys
    ELSE {k \in keys : ~key_less(k, start_after.key)}

\* start_after.map(Bound::exclusive): the keys strictly after the cursor
bound_exclusive(keys, start_after) ==
    IF ~start_after.some THEN keys
    ELSE {k \in keys : key_less(start_after.key, k)}

first_key(keys) == CHOOSE k \in keys : \A j \in keys : j = k \/ key_less(k, j)

\* range(.., Order::Ascending)
RECURSIVE range_ascending(_)
range_ascending(keys) ==
    IF keys = {} THEN <<>>
    ELSE <<first_key(keys)>> \o range_ascending(keys \ {first_key(keys)})

\* limit.unwrap_or(DEFAULT_LIMIT).min(MAX_LIMIT)
page_limit(limit) == Min(IF limit = None THEN DEFAULT_LIMIT ELSE limit, MAX_LIMIT)

take(n, items) == SubSeq(items, 1, Min(n, Len(items)))

RouteResponse(denom_in, denom_out, route) ==
    [denom_in |-> denom_in, denom_out |-> denom_out, route |-> route]

route_responses(routes, keys) ==
    [i \in 1..Len(keys) |-> RouteResponse(keys[i][1], keys[i][2], routes[keys[i]])]

query_routes(routes, start_after, limit) ==
    route_responses(routes,
        take(page_limit(limit),
             range_ascending(bound_exclusive(DOMAIN routes, start_after))))

\* ---- distribute_rewards
CollectorDenoms == {"uusdc", "umars", "uatom"}

\* Config of the rewards collector, as far as distribute_rewards reads it
CollectorConfig(safety_fund_denom, fee_collector_denom) ==
    [address_provider |-> "address_provider", safety_fund_denom |-> safety_fund_denom,
     fee_collector_denom |-> fee_collector_denom, channel_id |-> "channel-1",
     timeout_seconds |-> 1]

\* address_provider::helpers::query_module_addr
query_module_addr(deps, address_type) ==
    IF deps.address_provider_up THEN Ok(address_type) ELSE Err("QueryError")

\* to_address sending every other denom to the fee collector
to_address_defaulting_to_fee_collector(deps, cfg, denom) ==
    IF denom = cfg.safety_fund_denom THEN query_module_addr(deps, "SafetyFund")
    ELSE query_module_addr(deps, "FeeCollector")

\* the address the denom is distributed to
to_address(deps, cfg, denom) ==
    IF denom = cfg.safety_fund_denom THEN query_module_addr(deps, "SafetyFund")
    ELSE IF denom = cfg.fee_collector_denom THEN query_module_addr(deps, "FeeCollector")
    ELSE Err("AssetNotEnabledForDistribution")

\* the amount given, or the balance the contract holds of the denom
unwrap_option_amount(deps, denom, amount) ==
    IF amount # None THEN Ok(amount)
    ELSE IF deps.bank_up THEN Ok(deps.balance[denom])
    ELSE Err("QueryError")

CollectorResponse(messages, attributes) ==
    [ok |-> TRUE, err |-> "", messages |-> messages, attributes |-> attributes]
CollectorErr(e) == [ok |-> FALSE, err |-> e, messages |-> <<>>, attributes |-> <<>>]

\* CosmosMsg::Ibc(IbcMsg::Transfer {..})
IbcTransfer(channel_id, to, denom, amount, timeout) ==
    [channel_id |-> channel_id, to_address |-> to,
     amount |-> [denom |-> denom, amount |-> amount], timeout |-> timeout]

distribute_amount(cfg, block_time, denom, to, amount_to_distribute) ==
    IF ~amount_to_distribute.ok THEN CollectorErr(amount_to_distribute.err)
    ELSE CollectorResponse(
             <<IbcTransfer(cfg.channel_id, to, denom, amount_to_distribute.val,
                           block_time + cfg.timeout_seconds)>>,
             <<<<"action", "distribute_rewards">>, <<"denom", denom>>,
               <<"amount", amount_to_distribute.val>>, <<"to", to>>>>)

distribute_to(deps, block_time, denom, amount, to) ==
    IF ~to.ok THEN CollectorErr(to.err)
    ELSE distribute_amount(deps.config, block_time, denom, to.val,
                           unwrap_option_amount(deps, denom, amount))

distribute_rewards(deps, block_time, denom, amount) ==
    distribute_to(deps, block_time, denom, amount, to_address(deps, deps.config, denom))

\* ----------------------------------------------------------------- state
VARIABLES
    now,                      \* env.block.time.seconds()
    ASSET_INCENTIVES,         \* state::ASSET_INCENTIVES
    USER_ASSET_INDICES,       \* state::USER_ASSET_INDICES
    USER_UNCLAIMED_REWARDS,   \* state::USER_UNCLAIMED_REWARDS
    user_collateral,          \* red bank: amount_scaled of UserCollateralResponse
    collateral_total_scaled,  \* red bank: Market.collateral_total_scaled
    ops,                      \* number of balance changes and claims so far
    last,                     \* the last operation and its outcome
    arg,                      \* inputs of a function called on its own
    res                       \* what that call returned

storage == <<ASSET_INCENTIVES, USER_ASSET_INDICES, USER_UNCLAIMED_REWARDS>>
redbank == <<user_collateral, collateral_total_scaled>>
vars == <<now, ASSET_INCENTIVES, USER_ASSET_INDICES, USER_UNCLAIMED_REWARDS,
          user_collateral, collateral_total_scaled, ops, last, arg, res>>

Store == [ASSET_INCENTIVES |-> ASSET_INCENTIVES,
          USER_ASSET_INDICES |-> USER_ASSET_INDICES,
          USER_UNCLAIMED_REWARDS |-> USER_UNCLAIMED_REWARDS]

Querier(up) == [up |-> up, user_collateral |-> user_collateral,
                collateral_total_scaled |-> collateral_total_scaled]

AssetIncentive(emission_per_second, start_time, duration, index, last_updated) ==
    [emission_per_second |-> emission_per_second, start_time |-> start_time,
     duration |-> duration, index |-> index, last_updated |-> last_updated]

NoArg == [kind |-> "none"]
NoRes == [f |-> "none"]
\* total and messages: the claimed total and the number of bank messages
Last(op, user, denom, ok, total, messages) ==
    [op |-> op, user |-> user, denom |-> denom, ok |-> ok, total |-> total,
     messages |-> messages]

\* the storage of the next state is `store`
Commit(store) ==
    /\ ASSET_INCENTIVES' = store.ASSET_INCENTIVES
    /\ USER_ASSET_INDICES' = store.USER_ASSET_INDICES
    /\ USER_UNCLAIMED_REWARDS' = store.USER_UNCLAIMED_REWARDS

\* the schedules the incentive of denom "asset" is configured with: emitting
\* over all block times, emitting during [1, 2) only, and emitting so much
\* that the arithmetic overflows
Schedules == {AssetIncentive(1, 0, MaxTime, 0, 0), AssetIncentive(3, 1, 1, 0, 0),
              AssetIncentive(Uint128Max, 0, MaxTime, 0, 0)}

\* one half, as a Decimal
Half == DecimalFractional \div 2

\* At block time 0 the incentive of "asset" has just been configured (index
\* zero) and nobody holds "asset" but users not modelled.  The incentive of
\* "zero" has reached index one and emits nothing any more; u1 holds one unit
\* of "zero" and was last settled at index one half.
Init ==
    /\ now = 0
    /\ ASSET_INCENTIVES \in
           {[d \in Denoms |-> IF d = "asset" THEN a
                              ELSE AssetIncentive(0, 0, MaxTime, DecimalFractional, 0)] :
               a \in Schedules}
    /\ USER_ASSET_INDICES =
           [u \in Users |-> [d \in Denoms |-> IF u = "u1" /\ d = "zero" THEN Half ELSE None]]
    /\ USER_UNCLAIMED_REWARDS = [u \in Users |-> [d \in Denoms |-> None]]
    /\ user_collateral =
           [u \in Users |-> [d \in Denoms |-> IF u = "u1" /\ d = "zero" THEN 1 ELSE 0]]
    /\ collateral_total_scaled \in
           {[d \in Denoms |-> IF d = "asset" THEN others ELSE 1] : others \in {0, 1}}
    /\ ops = 0
    /\ last = Last("init", "", "", TRUE, 0, 0)
    /\ arg = NoArg
    /\ res = NoRes

\* the block time advances
Tick ==
    /\ now < MaxTime
    /\ now' = now + 1
    /\ last' = Last("Tick", "", "", TRUE, 0, 0)
    /\ UNCHANGED <<storage, redbank, ops, arg, res>>

\* the balance change takes effect when the settlement succeeded
balance_changed(user_addr, collateral_denom, amount, before, r) ==
    /\ last' = Last("BalanceChange", user_addr, collateral_denom, r.ok, 0, 0)
    /\ IF r.ok
       THEN /\ Commit(r.store)
            /\ user_collateral' =
                   [user_collateral EXCEPT ![user_addr][collateral_denom] = amount]
            /\ collateral_total_scaled' =
                   [collateral_total_scaled EXCEPT ![collateral_denom] = @ + amount - before]
       ELSE UNCHANGED <<storage, redbank>>

\* the red bank changes a user's scaled collateral (deposit, withdraw): it has
\* the incentives contract settle the user with the balances before the change
BalanceChange(user_addr, collateral_denom, amount) ==
    /\ ops < MaxOps
    /\ amount # user_collateral[user_addr][collateral_denom]
    /\ ops' = ops + 1
    /\ balance_changed(user_addr, collateral_denom, amount,
           user_collateral[user_addr][collateral_denom],
           update_user_rewards(Store, Querier(TRUE), now, user_addr, collateral_denom,
               ASSET_INCENTIVES[collateral_denom],
               SomeCollaterals(user_collateral[user_addr][collateral_denom],
                               collateral_total_scaled[collateral_denom]),
               FALSE))
    /\ UNCHANGED <<now, arg, res>>

claimed(user_addr, r) ==
    /\ last' = Last("ClaimRewards", user_addr, "", r.ok, r.total, Len(r.messages))
    /\ Commit(r.store)

\* ExecuteMsg::ClaimRewards sent by user_addr; up: the red bank answers queries
ClaimRewards(user_addr, up) ==
    /\ ops < MaxOps
    /\ ops' = ops + 1
    /\ claimed(user_addr, execute_claim_rewards(Store, Querier(up), now, user_addr))
    /\ UNCHANGED <<now, redbank, arg, res>>

Next ==
    \/ Tick
    \/ \E u \in Users, d \in Denoms, a \in Amounts : BalanceChange(u, d, a)
    \/ \E u \in Users, up \in BOOLEAN : ClaimRewards(u, up)

Spec == Init /\ [][Next]_vars

\* ------------------------------------------- the functions on their own
\* SpecFn calls the functions of helpers.rs on inputs drawn from the sets
\* below: arg holds the inputs, res the function called and what it returned.

\* Decimal inputs: zero, one atomic, one half, one, one and a half, two, and
\* the two largest Decimals
IndexInputs == {0, 1, Half, DecimalFractional, DecimalFractional + Half,
                2 * DecimalFractional, Uint128Max - 1, Uint128Max}

Arg(kind, asset_incentive, total_amount_scaled, current_block_time, user_amount_scaled, user_asset_index, user_unclaimed_rewards, collaterals, querier_up, clear_rewards) ==
    [kind |-> kind, asset_incentive |-> asset_incentive,
     total_amount_scaled |-> total_amount_scaled, current_block_time |-> current_block_time,
     user_amount_scaled |-> user_amount_scaled, user_asset_index |-> user_asset_index,
     user_unclaimed_rewards |-> user_unclaimed_rewards, collaterals |-> collaterals,
     querier_up |-> querier_up, clear_rewards |-> clear_rewards]

\* inputs of update_asset_incentive_index
IndexArgs ==
    {Arg("index", AssetIncentive(e, s, d, i, l), t, n, 0, 0, 0, FALSE, TRUE, FALSE) :
        e \in {0, 1, 3, Uint128Max}, s \in {0, 1, 2}, d \in {0, 1, 3},
        i \in {0, 1, DecimalFractional, Uint128Max}, l \in 0..3,
        t \in {0, 1, 3, 8}, n \in 0..4}

\* inputs of compute_user_accrued_rewards
AccruedArgs ==
    {Arg("accrued", AssetIncentive(0, 0, 0, i, 0), 0, 0, a, u, 0, FALSE, TRUE, FALSE) :
        i \in IndexInputs, a \in {0, 1, 2, 3, 10, 100}, u \in IndexInputs}

\* inputs of update_user_rewards: the stored incentive, user index and
\* unclaimed rewards of one (user, denom) key, the balances (passed by the
\* caller or answered by the red bank), and the block time
SettleArgs ==
    {Arg("settle", AssetIncentive(e, 0, 3, i, l), t, 2, a, u, r, c, up, clear) :
        e \in {0, 1, Uint128Max}, i \in {0, Half, DecimalFractional}, l \in {0, 2},
        t \in {3, 4}, a \in {0, 1, 3},
        u \in {None, 0, Half, DecimalFractional, 2 * DecimalFractional},
        r \in {None, 0, 5, Uint128Max}, c \in BOOLEAN, up \in BOOLEAN, clear \in BOOLEAN}

\* inputs of compute_asset_incentive_index called on its own
ComputeIndexArgs ==
    {[kind |-> "compute_index", previous_index |-> i, emission_per_second |-> e,
      total_amount_scaled |-> t, time_start |-> ts, time_end |-> te] :
        i \in {0, Half, Uint128Max}, e \in {0, 1, 100, Uint128Max \div 2, Uint128Max},
        t \in {0, 1, 3, 200}, ts \in 0..3, te \in 0..3}

\* the key the settle inputs are about
FnUser == "u1"
FnDenom == "asset"

\* the store and the red bank the settle inputs describe
FnStore(a) ==
    [ASSET_INCENTIVES |-> [d \in Denoms |-> a.asset_incentive],
     USER_ASSET_INDICES |-> [u \in Users |-> [d \in Denoms |-> a.user_asset_index]],
     USER_UNCLAIMED_REWARDS |-> [u \in Users |-> [d \in Denoms |-> a.user_unclaimed_rewards]]]

FnQuerier(a) ==
    [up |-> a.querier_up,
     user_collateral |-> [u \in Users |-> [d \in Denoms |-> a.user_amount_scaled]],
     collateral_total_scaled |-> [d \in Denoms |-> a.total_amount_scaled]]

FnCollaterals(a) ==
    IF a.collaterals THEN SomeCollaterals(a.user_amount_scaled, a.total_amount_scaled)
    ELSE NoCollaterals

Res(f, out) == [f |-> f, out |-> out]

InitFn ==
    /\ now = 0
    /\ ASSET_INCENTIVES = [d \in Denoms |-> AssetIncentive(0, 0, 0, 0, 0)]
    /\ USER_ASSET_INDICES = [u \in Users |-> [d \in Denoms |-> None]]
    /\ USER_UNCLAIMED_REWARDS = [u \in Users |-> [d \in Denoms |-> None]]
    /\ user_collateral = [u \in Users |-> [d \in Denoms |-> 0]]
    /\ collateral_total_scaled = [d \in Denoms |-> 0]
    /\ ops = 0
    /\ last = Last("init", "", "", TRUE, 0, 0)
    /\ arg \in IndexArgs \cup AccruedArgs \cup SettleArgs \cup ComputeIndexArgs
    /\ res = NoRes

CallUpdateAssetIncentiveIndex ==
    /\ arg.kind = "index"
    /\ res' = Res("update_asset_incentive_index",
                  update_asset_incentive_index(arg.asset_incentive, arg.total_amount_scaled,
                                               arg.current_block_time))
    /\ UNCHANGED <<now, storage, redbank, ops, last, arg>>

CallComputeUserAccruedRewards ==
    /\ arg.kind = "accrued"
    /\ res' = Res("compute_user_accrued_rewards",
                  compute_user_accrued_rewards(arg.user_amount_scaled, arg.user_asset_index,
                                               arg.asset_incentive.index))
    /\ UNCHANGED <<now, storage, redbank, ops, last, arg>>

CallUpdateUserRewards ==
    /\ arg.kind = "settle"
    /\ res' = Res("update_user_rewards",
                  update_user_rewards(FnStore(arg), FnQuerier(arg), arg.current_block_time,
                                      FnUser, FnDenom, arg.asset_incentive,
                                      FnCollaterals(arg), arg.clear_rewards))
    /\ UNCHANGED <<now, storage, redbank, ops, last, arg>>

\* update_asset_incentive_index called again on the incentive its first call
\* left, with the same total_amount_scaled and current_block_time
CallUpdateAssetIncentiveIndexAgain ==
    /\ arg.kind = "index"
    /\ res.f = "update_asset_incentive_index"
    /\ res.out.ok
    /\ res' = [f |-> "update_asset_incentive_index again", first |-> res.out,
               out |-> update_asset_incentive_index(res.out.val, arg.total_amount_scaled,
                                                    arg.current_block_time)]
    /\ UNCHANGED <<now, storage, redbank, ops, last, arg>>

CallComputeAssetIncentiveIndex ==
    /\ arg.kind = "compute_index"
    /\ res' = Res("compute_asset_incentive_index",
                  compute_asset_incentive_index(arg.previous_index, arg.emission_per_second,
                                                arg.total_amount_scaled, arg.time_start,
                                                arg.time_end))
    /\ UNCHANGED <<now, storage, redbank, ops, last, arg>>

NextFn ==
    \/ CallUpdateAssetIncentiveIndex
    \/ CallUpdateAssetIncentiveIndexAgain
    \/ CallComputeUserAccruedRewards
    \/ CallUpdateUserRewards
    \/ CallComputeAssetIncentiveIndex

SpecFn == InitFn /\ [][NextFn]_vars

\* ------------------------------------------- the health guards on their own
\* SpecHealth calls the three guards of health.rs for one user: arg holds the
\* user's records, the collaborators' answers and the inputs of the call, res
\* the guard called and what it returned.

\* the largest amount whose Decimal::from_ratio(amount, 1) fits
BigAmount == Uint128Max \div DecimalFractional

\* the markets: uosmo with max LTV 1/2 and liquidation threshold 3/4 at
\* indices one, uatom with 1/4 and 1/2 at liquidity index one and a half
OsmoMarket ==
    Market(Half, (3 * DecimalFractional) \div 4, DecimalFractional, DecimalFractional)
AtomMarket ==
    Market(DecimalFractional \div 4, Half, DecimalFractional + Half, DecimalFractional)

\* a Collateral entry (its scaled amount is the ma token balance)
Collateral(enabled) == [some |-> TRUE, enabled |-> enabled]

\* what the collaborators answer: everything, no market for uatom, or no
\* price for uatom; the price of uosmo is one, that of uatom one half
Environments == {"up", "no market", "no price"}

HealthArg(osmo_collateral, osmo_balance, osmo_debt, osmo_limit, atom_collateral, atom_debt, env, order, denom, amount) ==
    [kind |-> "health",
     COLLATERALS |-> [d \in BankDenoms |-> IF d = "uosmo" THEN osmo_collateral
                                           ELSE atom_collateral],
     ma_balance |-> [d \in BankDenoms |-> IF d = "uosmo" THEN osmo_balance ELSE 2],
     DEBTS |-> [d \in BankDenoms |-> IF d = "uosmo" THEN osmo_debt ELSE atom_debt],
     limit |-> [d \in BankDenoms |-> IF d = "uosmo" THEN osmo_limit ELSE 0],
     MARKETS |-> [d \in BankDenoms |-> IF d = "uosmo" THEN OsmoMarket
                                       ELSE IF env = "no market" THEN NoMarket ELSE AtomMarket],
     price |-> [d \in BankDenoms |-> IF d = "uosmo" THEN DecimalFractional
                                     ELSE IF env = "no price" THEN None
                                     ELSE Half],
     order |-> order, denom |-> denom, amount |-> amount]

\* the uosmo collateral entry and ma token balance of the user
OsmoCollaterals ==
    {<<NoCollateral, 0>>, <<Collateral(TRUE), 2>>, <<Collateral(TRUE), 4>>,
     <<Collateral(FALSE), 4>>, <<Collateral(TRUE), BigAmount>>}

HealthArgs ==
    {HealthArg(oc[1], oc[2], od, ol, ac, ad, env, order, denom, amount) :
        oc \in OsmoCollaterals, od \in {None, 1, 3}, ol \in {0, 2},
        ac \in {NoCollateral, Collateral(TRUE), Collateral(FALSE)}, ad \in {None, 2, 3},
        env \in Environments, order \in {<<"uatom", "uosmo">>, <<"uosmo", "uatom">>},
        denom \in BankDenoms, amount \in {0, 1, 2, 5}}

\* inputs of compute_position_health called on its own: the positions of a
\* user, with uncollateralized_debt set as the caller of the function set it
PositionsArgs ==
    {[kind |-> "positions", COLLATERALS |-> a.COLLATERALS, ma_balance |-> a.ma_balance,
      DEBTS |-> a.DEBTS, limit |-> a.limit, MARKETS |-> a.MARKETS, price |-> a.price,
      order |-> a.order, denom |-> a.denom, amount |-> a.amount,
      uncollateralized_debt |-> [d \in BankDenoms |-> IF d = "uosmo" THEN uo ELSE ua]] :
        a \in {HealthArg(Collateral(TRUE), 4, od, 0, ac, ad, "up", order, "uosmo", 0) :
                  od \in {None, 3}, ac \in {NoCollateral, Collateral(TRUE)},
                  ad \in {None, 2, 3},
                  order \in {<<"uatom", "uosmo">>, <<"uosmo", "uatom">>}},
        uo \in BOOLEAN, ua \in BOOLEAN}

\* the positions of the user with uncollateralized_debt as the input sets it
PositionsOf(a) ==
    [d \in BankDenoms |->
        IF get_user_positions_map(a).val[d].some
        THEN [get_user_positions_map(a).val[d] EXCEPT
                  !.uncollateralized_debt = a.uncollateralized_debt[d]]
        ELSE NoPosition]

InitHealth ==
    /\ now = 0
    /\ ASSET_INCENTIVES = [d \in Denoms |-> AssetIncentive(0, 0, 0, 0, 0)]
    /\ USER_ASSET_INDICES = [u \in Users |-> [d \in Denoms |-> None]]
    /\ USER_UNCLAIMED_REWARDS = [u \in Users |-> [d \in Denoms |-> None]]
    /\ user_collateral = [u \in Users |-> [d \in Denoms |-> 0]]
    /\ collateral_total_scaled = [d \in Denoms |-> 0]
    /\ ops = 0
    /\ last = Last("init", "", "", TRUE, 0, 0)
    /\ arg \in HealthArgs \cup PositionsArgs
    /\ res = NoRes

CallAssertLiquidatable ==
    /\ arg.kind = "health"
    /\ res' = Res("assert_liquidatable", assert_liquidatable(arg))
    /\ arg' = deps_after(arg, arg.denom, arg.amount)
    /\ UNCHANGED <<now, storage, redbank, ops, last>>

CallAssertBelowLiqThresholdAfterWithdraw ==
    /\ arg.kind = "health"
    /\ res' = Res("assert_below_liq_threshold_after_withdraw",
                  assert_below_liq_threshold_after_withdraw(arg, arg.denom, arg.amount))
    /\ arg' = deps_after(arg, arg.denom, arg.amount)
    /\ UNCHANGED <<now, storage, redbank, ops, last>>

CallAssertBelowMaxLtvAfterBorrow ==
    /\ arg.kind = "health"
    /\ res' = Res("assert_below_max_ltv_after_borrow",
                  assert_below_max_ltv_after_borrow(arg, arg.denom, arg.amount))
    /\ arg' = deps_after(arg, arg.denom, arg.amount)
    /\ UNCHANGED <<now, storage, redbank, ops, last>>

CallComputePositionHealth ==
    /\ arg.kind = "positions"
    /\ res' = [f |-> "compute_position_health", positions |-> PositionsOf(arg),
               out |-> compute_position_health(PositionsOf(arg), arg.order)]
    /\ UNCHANGED <<now, storage, redbank, ops, last, arg>>

NextHealth ==
    \/ CallAssertLiquidatable
    \/ CallAssertBelowLiqThresholdAfterWithdraw
    \/ CallAssertBelowMaxLtvAfterBorrow
    \/ CallComputePositionHealth

SpecHealth == InitHealth /\ [][NextHealth]_vars

\* ------------------------------------------- the routes query on its own
\* a route, as the swapper of a chain stores it: here the pool and the denom
\* it swaps to
Route(k) == <<[pool_id |-> Len(k[1]), token_out_denom |-> k[2]]>>

\* the stored routes: none, one, two, all, all but one
RouteSets ==
    {S \in SUBSET RouteKeys : Cardinality(S) <= 2 \/ Cardinality(RouteKeys \ S) <= 1}

RoutesArgs ==
    {[kind |-> "routes", routes |-> [k \in S |-> Route(k)], start_after |-> c,
      limit |-> l] :
        S \in RouteSets,
        c \in {NoStart} \cup {StartAfter(k) : k \in RouteKeys},
        l \in {None, 0, 1, 2, DEFAULT_LIMIT, MAX_LIMIT, MAX_LIMIT + 1, MAX_LIMIT + 2}}

\* a page, the cursor it was asked with, and the entries of the pages so far
Page(f, start_after, out, visited, pages) ==
    [f |-> f, start_after |-> start_after, out |-> out, visited |-> visited,
     pages |-> pages]

\* inputs of distribute_rewards: the stored config, the collaborators, the
\* balance the contract holds, the denom and the amount of the message
DistributeArgs ==
    {[kind |-> "distribute", config |-> CollectorConfig(sf, fc),
      address_provider_up |-> ap, bank_up |-> bank,
      balance |-> [x \in CollectorDenoms |-> b], block_time |-> t,
      denom |-> d, amount |-> a] :
        sf \in CollectorDenoms, fc \in CollectorDenoms, ap \in BOOLEAN, bank \in BOOLEAN,
        b \in {0, 5}, t \in {0, 1}, d \in CollectorDenoms, a \in {None, 0, 7}}

InitRoutes ==
    /\ now = 0
    /\ ASSET_INCENTIVES = [d \in Denoms |-> AssetIncentive(0, 0, 0, 0, 0)]
    /\ USER_ASSET_INDICES = [u \in Users |-> [d \in Denoms |-> None]]
    /\ USER_UNCLAIMED_REWARDS = [u \in Users |-> [d \in Denoms |-> None]]
    /\ user_collateral = [u \in Users |-> [d \in Denoms |-> 0]]
    /\ collateral_total_scaled = [d \in Denoms |-> 0]
    /\ ops = 0
    /\ last = Last("init", "", "", TRUE, 0, 0)
    /\ arg \in RoutesArgs \cup DistributeArgs
    /\ res = NoRes

first_page(out) == Page("query_routes", arg.start_after, out, out, 1)

\* QueryMsg::Routes with the cursor and the limit of the inputs
CallQueryRoutes ==
    /\ arg.kind = "routes"
    /\ res = NoRes
    /\ res' = first_page(query_routes(arg.routes, arg.start_after, arg.limit))
    /\ UNCHANGED <<now, storage, redbank, ops, last, arg>>

next_page(start_after, out) ==
    Page("query_routes next", start_after, out, res.visited \o out, res.pages + 1)

last_key(out) == <<out[Len(out)].denom_in, out[Len(out)].denom_out>>

\* the client asks for the next page, with the last key it was returned as
\* the cursor, until a page comes back empty
CallQueryRoutesNext ==
    /\ arg.kind = "routes"
    /\ res.f \in {"query_routes", "query_routes next"}
    /\ res.out # <<>>
    /\ res.pages <= Cardinality(RouteKeys)
    /\ res' = next_page(StartAfter(last_key(res.out)),
                        query_routes(arg.routes, StartAfter(last_key(res.out)), arg.limit))
    /\ UNCHANGED <<now, storage, redbank, ops, last, arg>>

\* ExecuteMsg::DistributeRewards
CallDistributeRewards ==
    /\ arg.kind = "distribute"
    /\ res' = Res("distribute_rewards",
                  distribute_rewards(arg, arg.block_time, arg.denom, arg.amount))
    /\ UNCHANGED <<now, storage, redbank, ops, last, arg>>

NextRoutes ==
    \/ CallQueryRoutes
    \/ CallQueryRoutesNext
    \/ CallDistributeRewards

SpecRoutes == InitRoutes /\ [][NextRoutes]_vars

\* ------------------------------------------- settlements at a constant supply
\* The holders of "asset" have been settled at the index the incentive has
\* reached (zero, or the index earlier holders have brought it to); from then
\* on balances and supply stay as they are and the holders are settled in any
\* order as time passes.
InitSettle ==
    /\ now = 0
    /\ \E e \in {1, 3}, s \in {0, 1}, d \in {1, MaxTime}, i \in {0, Half, DecimalFractional},
          b1 \in Amounts, b2 \in Amounts, others \in {0, 1} :
          /\ b1 + b2 + others > 0
          /\ ASSET_INCENTIVES =
                 [x \in Denoms |-> IF x = "asset" THEN AssetIncentive(e, s, d, i, 0)
                                   ELSE AssetIncentive(0, 0, MaxTime, DecimalFractional, 0)]
          /\ user_collateral =
                 [u \in Users |-> [x \in Denoms |-> IF x = "zero" THEN 0
                                                    ELSE IF u = "u1" THEN b1 ELSE b2]]
          /\ USER_ASSET_INDICES =
                 [u \in Users |-> [x \in Denoms |->
                     IF x = "asset" /\ (IF u = "u1" THEN b1 ELSE b2) > 0 THEN i ELSE None]]
          /\ collateral_total_scaled =
                 [x \in Denoms |-> IF x = "asset" THEN b1 + b2 + others ELSE 1]
    /\ USER_UNCLAIMED_REWARDS = [u \in Users |-> [x \in Denoms |-> None]]
    /\ ops = 0
    /\ last = Last("init", "", "", TRUE, 0, 0)
    /\ arg = NoArg
    /\ res = NoRes

settled(user_addr, r) ==
    /\ last' = Last("Settle", user_addr, "asset", r.ok,
                    IF r.ok THEN r.current_rewards - r.previous_rewards ELSE 0, 0)
    /\ IF r.ok THEN Commit(r.store) ELSE UNCHANGED storage

\* update_user_rewards for a holder of "asset" whose balance stays as it is
SettleUser(user_addr) ==
    /\ ops < MaxOps
    /\ ops' = ops + 1
    /\ settled(user_addr,
           update_user_rewards(Store, Querier(TRUE), now, user_addr, "asset",
               ASSET_INCENTIVES["asset"],
               SomeCollaterals(user_collateral[user_addr]["asset"],
                               collateral_total_scaled["asset"]),
               FALSE))
    /\ UNCHANGED <<now, redbank, arg, res>>

NextSettle ==
    \/ Tick
    \/ \E u \in Users : SettleUser(u)

SpecSettle == InitSettle /\ [][NextSettle]_vars

\* ------------------------------------------------------------ properties
\* what a call of update_asset_incentive_index was given and what it returned
IndexCall == res.f = "update_asset_incentive_index"
AccruedCall == res.f = "compute_user_accrued_rewards"
SettleCall == res.f = "update_user_rewards"

\* the clamped accrual window of the call's inputs, zero when it is empty
WindowOf(a) ==
    LET w == Min(a.current_block_time, a.asset_incentive.start_time + a.asset_incentive.duration)
             - Max(a.asset_incentive.start_time, a.asset_incentive.last_updated)
    IN  IF w > 0 THEN w ELSE 0

\* the five conditions, spelled out on the call's inputs
FiveConditions(a) ==
    /\ a.current_block_time # a.asset_incentive.last_updated
    /\ a.current_block_time > a.asset_incentive.start_time
    /\ a.asset_incentive.last_updated < a.asset_incentive.start_time + a.asset_incentive.duration
    /\ a.total_amount_scaled # 0
    /\ a.asset_incentive.emission_per_second # 0

\* C1 as stated: for every call of update_asset_incentive_index with
\* last_updated <= now the resulting index is >= the previous index, and equals
\* it if and only if emission_per_second = 0 or total_amount_scaled = 0.
C1_AsStated ==
    (IndexCall /\ res.out.ok /\ arg.asset_incentive.last_updated <= arg.current_block_time)
    => /\ res.out.val.index >= arg.asset_incentive.index
       /\ (res.out.val.index = arg.asset_incentive.index)
              <=> (arg.asset_incentive.emission_per_second = 0 \/ arg.total_amount_scaled = 0)

\* C1 amended: every successful call of update_asset_incentive_index with
\* last_updated <= now leaves an index >= the previous index; the index equals
\* the previous one whenever emission_per_second = 0 or total_amount_scaled = 0,
\* and otherwise exactly when one of the other three conditions of the guard
\* fails (now = last_updated, now <= start_time, last_updated >= start_time +
\* duration) or the emission of the clamped window, in Decimal atomics, is
\* smaller than total_amount_scaled (the ratio rounds down to zero).
C1_IndexNeverDecreases ==
    (IndexCall /\ res.out.ok /\ arg.asset_incentive.last_updated <= arg.current_block_time)
    => /\ res.out.val.index >= arg.asset_incentive.index
       /\ (arg.asset_incentive.emission_per_second = 0 \/ arg.total_amount_scaled = 0)
              => res.out.val.index = arg.asset_incentive.index
       /\ (res.out.val.index = arg.asset_incentive.index)
              <=> \/ ~FiveConditions(arg)
                  \/ arg.asset_incentive.emission_per_second * WindowOf(arg) * DecimalFractional
                         < arg.total_amount_scaled

\* an index left unchanged although emission and supply are non-zero: the
\* call comes at the block time of the last update
C1_Witness ==
    /\ IndexCall /\ res.out.ok
    /\ arg.asset_incentive.last_updated = arg.current_block_time
    /\ arg.asset_incentive.emission_per_second # 0 /\ arg.total_amount_scaled # 0
    /\ res.out.val.index = arg.asset_incentive.index

\* C2: over any sequence of settlements at non-decreasing block times, the
\* index and the last_updated of every stored AssetIncentive never decrease
\* from one state to the next, and last_updated never exceeds the block time.
C2_IndexAndLastUpdatedMonotone ==
    /\ [](\A d \in Denoms : ASSET_INCENTIVES[d].last_updated <= now)
    /\ [][\A d \in Denoms :
            /\ ASSET_INCENTIVES'[d].index >= ASSET_INCENTIVES[d].index
            /\ ASSET_INCENTIVES'[d].last_updated >= ASSET_INCENTIVES[d].last_updated]_vars

\* a settlement has advanced the index of "asset" a second time
C2_Witness ==
    /\ last.op \in {"BalanceChange", "ClaimRewards"} /\ last.ok
    /\ ASSET_INCENTIVES["asset"].last_updated = MaxTime
    /\ ASSET_INCENTIVES["asset"].index > DecimalFractional

C4_AsStated ==
    (AccruedCall /\ arg.asset_incentive.index < arg.user_asset_index) => ~res.out.ok

\* C4 amended: when asset_incentive_index < user_asset_index the call fails
\* whenever balance * asset_incentive_index, rounded down, is smaller than
\* balance * user_asset_index, rounded down (so for every balance >= 1 when
\* the indices are whole numbers), and otherwise, as for balance 0, it
\* returns 0.
C4_FailsOnSmallerProduct ==
    (AccruedCall /\ arg.asset_incentive.index < arg.user_asset_index)
    => LET new == (arg.user_amount_scaled * arg.asset_incentive.index) \div DecimalFractional
           old == (arg.user_amount_scaled * arg.user_asset_index) \div DecimalFractional
       IN  /\ new < old => ~res.out.ok
           /\ new = old => (res.out.ok /\ res.out.val = 0)
           /\ (/\ arg.user_amount_scaled >= 1
               /\ arg.user_asset_index % DecimalFractional = 0
               /\ arg.asset_incentive.index % DecimalFractional = 0) => ~res.out.ok

\* the checked subtraction has failed on a lower incentive index
C4_Witness ==
    /\ AccruedCall /\ ~res.out.ok /\ res.out.err = "Overflow"
    /\ arg.asset_incentive.index < arg.user_asset_index
    /\ arg.asset_incentive.index % DecimalFractional # 0

\* this step settles user u for denom d: a balance change of (u, d), or a
\* claim of u, that succeeded
Settles(u, d) ==
    /\ ops' = ops + 1
    /\ last'.ok
    /\ last'.user = u
    /\ \/ last'.op = "ClaimRewards"
       \/ last'.op = "BalanceChange" /\ last'.denom = d

\* C5 as stated: when the user's scaled collateral balance for the denom is
\* zero a settlement is skipped entirely: the AssetIncentive record, the
\* user's index and the user's unclaimed rewards are left as they were (an
\* absent entry read as zero).
C5_AsStated ==
    [][\A u \in Users, d \in Denoms :
          (Settles(u, d) /\ user_collateral[u][d] = 0)
          => /\ ASSET_INCENTIVES'[d] = ASSET_INCENTIVES[d]
             /\ USER_ASSET_INDICES'[u][d] = USER_ASSET_INDICES[u][d]
             /\ unwrap_or_zero(USER_UNCLAIMED_REWARDS'[u][d])
                    = unwrap_or_zero(USER_UNCLAIMED_REWARDS[u][d])]_vars

\* C5 amended: when the user's scaled collateral balance for the denom is
\* zero a settlement advances no index and accrues no reward: the
\* AssetIncentive record and the user's index are left as they were; the
\* unclaimed-rewards entry is still written, with its previous value (zero
\* when it was absent) if clear_rewards is false and with zero if it is true.
C5_ZeroBalanceSettlement ==
    [][\A u \in Users, d \in Denoms :
          (Settles(u, d) /\ user_collateral[u][d] = 0)
          => /\ ASSET_INCENTIVES'[d] = ASSET_INCENTIVES[d]
             /\ USER_ASSET_INDICES'[u][d] = USER_ASSET_INDICES[u][d]
             /\ USER_UNCLAIMED_REWARDS'[u][d] =
                    IF last'.op = "ClaimRewards" THEN 0
                    ELSE unwrap_or_zero(USER_UNCLAIMED_REWARDS[u][d])]_vars

\* a claim has settled a denom the user holds nothing of, while rewards of
\* that denom were being emitted: the incentive was not advanced and the
\* user's unclaimed rewards were written
C5_Witness ==
    /\ last.op = "ClaimRewards" /\ last.ok
    /\ \E d \in Denoms :
          /\ user_collateral[last.user][d] = 0
          /\ USER_UNCLAIMED_REWARDS[last.user][d] = 0
          /\ ASSET_INCENTIVES[d].last_updated < now
          /\ ASSET_INCENTIVES[d].emission_per_second # 0

\* C6: over any sequence of settlements and claims, a user whose collateral
\* balance in a denom is zero never has the user-index entry of that denom
\* created or updated, and the user's settlement does not advance the
\* denom's stored index or last_updated.
C6_ZeroBalanceIndexUntouched ==
    [][\A u \in Users, d \in Denoms :
          user_collateral[u][d] = 0
          => /\ USER_ASSET_INDICES'[u][d] = USER_ASSET_INDICES[u][d]
             /\ Settles(u, d)
                    => /\ ASSET_INCENTIVES'[d].index = ASSET_INCENTIVES[d].index
                       /\ ASSET_INCENTIVES'[d].last_updated
                              = ASSET_INCENTIVES[d].last_updated]_vars

\* a user without "asset" has claimed while "asset" was emitting to a
\* non-zero supply and time had passed: no user index, no advance
C6_Witness ==
    /\ last.op = "ClaimRewards" /\ last.ok
    /\ user_collateral[last.user]["asset"] = 0
    /\ USER_ASSET_INDICES[last.user]["asset"] = None
    /\ index_advances(ASSET_INCENTIVES["asset"], collateral_total_scaled["asset"], now)

\* C7: a second claim in immediate succession (same block time, no balance
\* or supply change in between) yields zero reward, and a query of the
\* unclaimed rewards right after a claim returns zero.
C7_SecondClaimYieldsZero ==
    /\ []((last.op = "ClaimRewards" /\ last.ok)
          => query_user_unclaimed_rewards(Store, Querier(TRUE), now, last.user) = Ok(0))
    /\ [][(/\ last.op = "ClaimRewards" /\ last.ok
           /\ last'.op = "ClaimRewards" /\ last'.ok /\ last'.user = last.user
           /\ ops' = ops + 1)
          => (last'.total = 0 /\ last'.messages = 0)]_vars

\* a claim has paid rewards and the user can claim again
C7_Witness ==
    /\ last.op = "ClaimRewards" /\ last.ok /\ last.total > 0
    /\ ops < MaxOps
    /\ user_collateral[last.user]["asset"] > 0

\* the rewards of user u newly accrued in denom d, from the incentive index
\* the step leaves and the user index it found
NewlyAccrued(u, d) ==
    IF user_collateral[u][d] = 0 THEN 0
    ELSE (user_collateral[u][d] * ASSET_INCENTIVES'[d].index) \div DecimalFractional
         - (user_collateral[u][d] * unwrap_or_zero(USER_ASSET_INDICES[u][d]))
               \div DecimalFractional

RECURSIVE SumOver(_, _)
SumOver(f, S) == IF S = {} THEN 0
                 ELSE LET x == CHOOSE x \in S : TRUE IN f[x] + SumOver(f, S \ {x})

\* C8: a claim pays the previously stored unclaimed rewards plus the rewards
\* newly accrued over every collateral denom, which is what
\* query_user_unclaimed_rewards returns at the same block time just before;
\* it leaves the stored unclaimed rewards at zero, and emits one payout
\* message, or none when the total is zero.
C8_ClaimPaysStoredPlusAccrued ==
    [][\A u \in Users :
          (/\ last'.op = "ClaimRewards" /\ last'.ok /\ last'.user = u
           /\ ops' = ops + 1)
          => /\ query_user_unclaimed_rewards(Store, Querier(TRUE), now, u) = Ok(last'.total)
             /\ last'.total =
                    SumOver([d \in Denoms |-> unwrap_or_zero(USER_UNCLAIMED_REWARDS[u][d])
                                              + NewlyAccrued(u, d)], Denoms)
             /\ \A d \in Denoms : USER_UNCLAIMED_REWARDS'[u][d] = 0
             /\ last'.messages = IF last'.total = 0 THEN 0 ELSE 1]_vars

\* a claim has paid out rewards of both denoms in one message
C8_Witness ==
    /\ last.op = "ClaimRewards" /\ last.ok /\ last.messages = 1
    /\ last.total >= 2
    /\ last.user = "u1"
    /\ user_collateral["u1"]["asset"] > 0
    /\ USER_ASSET_INDICES["u1"]["asset"] # None
    /\ USER_ASSET_INDICES["u1"]["zero"] = DecimalFractional
    /\ \A d \in Denoms : USER_UNCLAIMED_REWARDS["u1"][d] = 0

\* C9: a settlement that fails (arithmetic error in the index advance or in
\* the reward computation, failed red-bank query) leaves the AssetIncentive
\* record, the user index and the unclaimed rewards as they were.
C9_FailedSettlementWritesNothing ==
    (SettleCall /\ ~res.out.ok) => res.out.store = FnStore(arg)

\* a settlement has failed when adding up the rewards, after the index advance
C9_Witness ==
    /\ SettleCall /\ ~res.out.ok /\ res.out.err = "Panic"
    /\ arg.user_unclaimed_rewards = Uint128Max
    /\ index_advances(arg.asset_incentive, arg.total_amount_scaled, arg.current_block_time)
    /\ arg.user_amount_scaled > 0

\* C10: update_asset_incentive_index changes the index only when all five
\* conditions hold; then the new index is previous_index + emission_per_second
\* * (min(now, start_time + duration) - max(start_time, last_updated)) /
\* total_amount_scaled, and in every other case the index is unchanged.
\* Instance: index 1, emission 100, supply 100000, window 500000..600000
\* gives index 101.
C10_IndexFormula ==
    /\ (IndexCall /\ res.out.ok)
       => /\ res.out.val.index =
                 IF FiveConditions(arg)
                 THEN arg.asset_incentive.index
                      + (arg.asset_incentive.emission_per_second
                            * (Min(arg.current_block_time,
                                   arg.asset_incentive.start_time + arg.asset_incentive.duration)
                               - Max(arg.asset_incentive.start_time,
                                     arg.asset_incentive.last_updated))
                            * DecimalFractional) \div arg.total_amount_scaled
                 ELSE arg.asset_incentive.index
          /\ res.out.val.index # arg.asset_incentive.index => FiveConditions(arg)
    /\ update_asset_incentive_index(
           AssetIncentive(100, 0, 1000000, DecimalFractional, 500000), 100000, 600000)
       = Ok(AssetIncentive(100, 0, 1000000, 101 * DecimalFractional, 600000))

\* a call past the end of the incentive has advanced the index over the
\* clamped window only
C10_Witness ==
    /\ IndexCall /\ res.out.ok
    /\ arg.current_block_time
           > arg.asset_incentive.start_time + arg.asset_incentive.duration
    /\ arg.asset_incentive.last_updated > arg.asset_incentive.start_time
    /\ res.out.val.index > arg.asset_incentive.index

\* a second call of update_asset_incentive_index right after a first one
IndexCallAgain == res.f = "update_asset_incentive_index again"
ComputeIndexCall == res.f = "compute_asset_incentive_index"

\* C11: every successful call of update_asset_incentive_index sets last_updated
\* to now, also when the index does not advance: with zero emission, with zero
\* supply, before the start and after the end of the incentive.
C11_LastUpdatedAlwaysSet ==
    (IndexCall /\ res.out.ok)
    => /\ res.out.val.last_updated = arg.current_block_time
       /\ (\/ arg.asset_incentive.emission_per_second = 0
           \/ arg.total_amount_scaled = 0
           \/ arg.current_block_time <= arg.asset_incentive.start_time
           \/ arg.asset_incentive.last_updated
                  >= arg.asset_incentive.start_time + arg.asset_incentive.duration)
              => res.out.val = [arg.asset_incentive EXCEPT
                                    !.last_updated = arg.current_block_time]

\* a call after the end of the incentive, at a block time other than
\* last_updated: the index stays and last_updated moves to now
C11_Witness ==
    /\ IndexCall /\ res.out.ok
    /\ arg.asset_incentive.emission_per_second # 0 /\ arg.total_amount_scaled # 0
    /\ arg.asset_incentive.last_updated
           >= arg.asset_incentive.start_time + arg.asset_incentive.duration
    /\ arg.asset_incentive.last_updated # arg.current_block_time
    /\ res.out.val.index = arg.asset_incentive.index
    /\ res.out.val.last_updated = arg.current_block_time

\* C12: update_asset_incentive_index called twice in a row with the same now
\* and the same total supply is idempotent: the second call succeeds and leaves
\* the index and last_updated of the first call.
C12_SecondCallIsNoOp ==
    IndexCallAgain
    => /\ res.out.ok
       /\ res.out.val.index = res.first.val.index
       /\ res.out.val.last_updated = res.first.val.last_updated
       /\ res.out.val = res.first.val

\* a second call after a first call that advanced the index
C12_Witness ==
    /\ IndexCallAgain
    /\ res.first.val.index > arg.asset_incentive.index
    /\ res.out.ok
    /\ res.out.val = res.first.val

\* C13: compute_user_accrued_rewards returns 0 whenever the user balance is 0,
\* for any two indices (also a user index above the incentive index), and
\* whenever the two indices are equal, for any balance: with equal indices
\* the only other outcome is the panic of a product that does not fit Uint128.
C13_ZeroBalanceOrEqualIndices ==
    AccruedCall
    => /\ arg.user_amount_scaled = 0 => (res.out.ok /\ res.out.val = 0)
       /\ arg.user_asset_index = arg.asset_incentive.index
              => /\ res.out.ok => res.out.val = 0
                 /\ ~res.out.ok
                        => /\ res.out.err = "Panic"
                           /\ (arg.user_amount_scaled * arg.asset_incentive.index)
                                  \div DecimalFractional > Uint128Max

\* zero returned for a non-zero balance at equal non-zero indices, with
\* a balance whose products with the index fit Uint128
C13_Witness ==
    /\ AccruedCall /\ res.out.ok /\ res.out.val = 0
    /\ arg.user_amount_scaled > 0
    /\ arg.user_asset_index = arg.asset_incentive.index
    /\ arg.asset_incentive.index >= DecimalFractional

\* C14: compute_asset_incentive_index returns an overflow error and no index
\* when time_start > time_end or when emission_per_second * (time_end -
\* time_start) does not fit Uint128; an index it returns is never wrapped or
\* truncated: it is previous_index + floor(emission * elapsed / total) in full.
C14_OverflowIsAnError ==
    ComputeIndexCall
    => /\ arg.time_start > arg.time_end
              => (~res.out.ok /\ res.out.err = "Overflow")
       /\ (/\ arg.time_start <= arg.time_end
           /\ arg.emission_per_second * (arg.time_end - arg.time_start) > Uint128Max)
              => (~res.out.ok /\ res.out.err = "Overflow")
       /\ res.out.ok
              => /\ arg.time_start <= arg.time_end
                 /\ res.out.val =
                        arg.previous_index
                        + (arg.emission_per_second * (arg.time_end - arg.time_start)
                               * DecimalFractional) \div arg.total_amount_scaled
                 /\ res.out.val <= Uint128Max

\* the multiplication overflows on an ordered window
C14_Witness ==
    /\ ComputeIndexCall
    /\ arg.time_start < arg.time_end
    /\ arg.emission_per_second * (arg.time_end - arg.time_start) > Uint128Max
    /\ ~res.out.ok /\ res.out.err = "Overflow"

\* ---- the guards of health.rs
LiquidatableCall == res.f = "assert_liquidatable"
WithdrawCall == res.f = "assert_below_liq_threshold_after_withdraw"
BorrowCall == res.f = "assert_below_max_ltv_after_borrow"

\* the user has a collateral or a debt entry in the denom
HasPosition(a, d) == a.COLLATERALS[d].some \/ a.DEBTS[d] # None

\* the underlying collateral the user has enabled in the denom
CollateralAmountOf(a, d) ==
    IF a.COLLATERALS[d].some /\ a.COLLATERALS[d].enabled
    THEN (a.ma_balance[d] * a.MARKETS[d].liquidity_index) \div DecimalFractional
    ELSE 0

\* the underlying debt of the user in the denom above the uncollateralized limit
DebtAmountOf(a, d) ==
    IF a.DEBTS[d] = None THEN 0
    ELSE Max(0, (a.DEBTS[d] * a.MARKETS[d].borrow_index) \div DecimalFractional
                    - a.limit[d])

\* the positions of the user can be aggregated: every denom with an entry has
\* a market and a price
Aggregates(a) ==
    \A d \in BankDenoms : HasPosition(a, d) => (a.MARKETS[d].some /\ a.price[d] # None)

\* a user with collateral 1000 in uosmo and nothing else
Collateral1000 ==
    HealthArg(Collateral(TRUE), 1000, None, 0, NoCollateral, None, "up",
              <<"uatom", "uosmo">>, "uosmo", 1500)

\* C15: when the user's positions aggregate, the withdraw check fails with the
\* arithmetic (underflow) error if the withdrawal exceeds the user's collateral
\* amount in the denom (collateral 1000, withdrawal 1500), never flooring the
\* collateral at zero, and with the distinct error 'No User Balance' if the
\* user has no position in the denom at all.
C15_WithdrawErrors ==
    /\ (WithdrawCall /\ Aggregates(arg))
       => /\ ~HasPosition(arg, arg.denom)
                 => (~res.out.ok /\ res.out.err = "No User Balance")
          /\ (HasPosition(arg, arg.denom) /\ arg.amount > CollateralAmountOf(arg, arg.denom))
                 => (~res.out.ok /\ res.out.err = "Overflow")
          /\ res.out.ok
                 => /\ HasPosition(arg, arg.denom)
                    /\ res.out.positions[arg.denom].collateral_amount
                           = CollateralAmountOf(arg, arg.denom) - arg.amount
    /\ LET r == assert_below_liq_threshold_after_withdraw(Collateral1000, "uosmo", 1500)
       IN  ~r.ok /\ r.err = "Overflow" /\ r.err # "No User Balance"

\* a withdrawal above a non-zero collateral
C15_Witness ==
    /\ WithdrawCall /\ Aggregates(arg)
    /\ CollateralAmountOf(arg, arg.denom) > 0
    /\ arg.amount > CollateralAmountOf(arg, arg.denom)
    /\ ~res.out.ok /\ res.out.err = "Overflow"

\* C16 as stated: the borrow check on a denom in which the user has no
\* position creates a position with zero collateral and zero debt, adds the
\* borrow amount to its debt, and populates its price and its risk parameters
\* (max_ltv, liquidation_threshold) freshly for that denom.
C16_AsStated ==
    (BorrowCall /\ res.out.ok /\ ~HasPosition(arg, arg.denom) /\ arg.MARKETS[arg.denom].some)
    => /\ res.out.positions[arg.denom].some
       /\ res.out.positions[arg.denom].collateral_amount = 0
       /\ res.out.positions[arg.denom].debt_amount = arg.amount
       /\ res.out.positions[arg.denom].asset_price = arg.price[arg.denom]
       /\ res.out.positions[arg.denom].max_ltv = arg.MARKETS[arg.denom].max_loan_to_value
       /\ res.out.positions[arg.denom].liquidation_threshold
              = arg.MARKETS[arg.denom].liquidation_threshold

\* C16 amended: the borrow check on a denom in which the user has no position
\* creates a position with zero collateral and zero debt, adds the borrow
\* amount to its debt, and populates that position's price freshly from the
\* oracle for that denom; its max_ltv and liquidation_threshold are left at
\* their default of zero (they weigh a collateral of zero), and no value of
\* another denom is reused: the other positions stay as aggregated.
C16_BorrowCreatesPosition ==
    (BorrowCall /\ res.out.ok /\ ~HasPosition(arg, arg.denom))
    => /\ res.out.positions[arg.denom].some
       /\ res.out.positions[arg.denom].denom = arg.denom
       /\ res.out.positions[arg.denom].collateral_amount = 0
       /\ res.out.positions[arg.denom].debt_amount = arg.amount
       /\ res.out.positions[arg.denom].asset_price = arg.price[arg.denom]
       /\ res.out.positions[arg.denom].max_ltv = 0
       /\ res.out.positions[arg.denom].liquidation_threshold = 0
       /\ \A d \in BankDenoms \ {arg.denom} :
              /\ res.out.positions[d].some = HasPosition(arg, d)
              /\ res.out.positions[d].some
                     => /\ res.out.positions[d].asset_price = arg.price[d]
                        /\ res.out.positions[d].max_ltv = arg.MARKETS[d].max_loan_to_value
                        /\ res.out.positions[d].liquidation_threshold
                               = arg.MARKETS[d].liquidation_threshold
                        /\ res.out.positions[d].collateral_amount = CollateralAmountOf(arg, d)
                        /\ res.out.positions[d].debt_amount = DebtAmountOf(arg, d)

\* a borrow in a denom without a position, by a user with a position in the
\* other denom, whose price and risk parameters differ
C16_Witness ==
    /\ BorrowCall /\ res.out.ok
    /\ ~HasPosition(arg, arg.denom) /\ arg.MARKETS[arg.denom].some
    /\ arg.amount > 0
    /\ \E d \in BankDenoms \ {arg.denom} :
           /\ res.out.positions[d].some
           /\ res.out.positions[d].asset_price # arg.price[arg.denom]
           /\ res.out.positions[d].max_ltv # 0
    /\ res.out.positions[arg.denom].debt_amount = arg.amount
    /\ res.out.positions[arg.denom].asset_price = arg.price[arg.denom]

\* the value of the user's debt is zero: no denom has debt above the limit
DebtValueZero(a) == \A d \in BankDenoms : DebtAmountOf(a, d) = 0

\* both health factors are undefined: UserHealthStatus::NotBorrowing
NotBorrowing(health) ==
    health.max_ltv_health_factor = None /\ health.liquidation_health_factor = None

\* C17: when the total debt value of the user's positions is zero, the health
\* evaluation classifies the user as NotBorrowing whatever the collateral:
\* assert_liquidatable returns false, the withdraw check returns true for every
\* amount up to the collateral, and no call fails with a division by zero.
C17_ZeroDebtIsNotBorrowing ==
    (Aggregates(arg) /\ DebtValueZero(arg))
    => /\ (LiquidatableCall \/ WithdrawCall \/ BorrowCall)
              => res.out.err # "DivideByZero"
       /\ (LiquidatableCall /\ res.out.ok)
              => /\ res.out.val = FALSE
                 /\ LET h == compute_position_health(res.out.positions, arg.order)
                    IN  h.ok /\ h.val.total_debt_value = 0 /\ NotBorrowing(h.val)
       /\ (WithdrawCall /\ res.out.ok) => res.out.val = TRUE
       /\ (WithdrawCall /\ HasPosition(arg, arg.denom)
               /\ arg.amount <= CollateralAmountOf(arg, arg.denom) /\ ~res.out.ok)
              => res.out.err = "Overflow"
       /\ (BorrowCall /\ arg.amount = 0 /\ res.out.ok) => res.out.val = TRUE

\* the whole of a non-zero collateral withdrawn by a user whose only debt is
\* within the uncollateralized limit
C17_Witness ==
    /\ WithdrawCall /\ res.out.ok /\ res.out.val = TRUE
    /\ Aggregates(arg) /\ DebtValueZero(arg)
    /\ \E d \in BankDenoms : arg.DEBTS[d] # None
    /\ arg.amount > 0
    /\ arg.amount = CollateralAmountOf(arg, arg.denom)

\* the sums of the health evaluation spelled out on a positions map, in
\* Decimal atomics: a value is amount * price, a weighted value the Decimal
\* product of the value and the weight
DebtValue(ps) ==
    SumOver([d \in BankDenoms |->
                IF ps[d].some THEN ps[d].debt_amount * ps[d].asset_price ELSE 0], BankDenoms)
LiqWeighted(ps) ==
    SumOver([d \in BankDenoms |->
                IF ps[d].some
                THEN (ps[d].collateral_amount * ps[d].asset_price
                          * ps[d].liquidation_threshold) \div DecimalFractional
                ELSE 0], BankDenoms)
LtvWeighted(ps) ==
    SumOver([d \in BankDenoms |->
                IF ps[d].some
                THEN (ps[d].collateral_amount * ps[d].asset_price * ps[d].max_ltv)
                         \div DecimalFractional
                ELSE 0], BankDenoms)

\* the entry of denom d in the map ps is the one aggregated from the user's
\* records, with collateral_amount c and debt_amount g
AggregatedAs(a, ps, d, c, g) ==
    /\ ps[d].some
    /\ ps[d].collateral_amount = c
    /\ ps[d].debt_amount = g
    /\ ps[d].asset_price = a.price[d]
    /\ ps[d].max_ltv = a.MARKETS[d].max_loan_to_value
    /\ ps[d].liquidation_threshold = a.MARKETS[d].liquidation_threshold

Aggregated(a, ps, d) ==
    IF HasPosition(a, d)
    THEN AggregatedAs(a, ps, d, CollateralAmountOf(a, d), DebtAmountOf(a, d))
    ELSE ~ps[d].some

\* C18: assert_liquidatable returns true if and only if the user has non-zero
\* debt and liq_threshold_hf = sum(collateral_value * liquidation_threshold) /
\* total_debt_value is strictly less than 1; at a health factor of exactly 1
\* it returns false.
C18_LiquidatableIffBelowOne ==
    (LiquidatableCall /\ res.out.ok)
    => /\ \A d \in BankDenoms : Aggregated(arg, res.out.positions, d)
       /\ res.out.val = TRUE
              <=> /\ DebtValue(res.out.positions) > 0
                  /\ LiqWeighted(res.out.positions) < DebtValue(res.out.positions)
       /\ LiqWeighted(res.out.positions) = DebtValue(res.out.positions)
              => res.out.val = FALSE

\* a user with debt at a health factor of exactly 1: not liquidatable
C18_Witness ==
    /\ LiquidatableCall /\ res.out.ok
    /\ DebtValue(res.out.positions) > 0
    /\ LiqWeighted(res.out.positions) = DebtValue(res.out.positions)
    /\ LtvWeighted(res.out.positions) < DebtValue(res.out.positions)
    /\ res.out.val = FALSE

\* C19: the withdraw check returns true if and only if, with the withdrawal
\* subtracted from the collateral of the named denom, the user is not
\* liquidatable (no debt, or liq_threshold_hf >= 1); the max LTV plays no part.
C19_WithdrawJudgedByLiqThreshold ==
    (WithdrawCall /\ res.out.ok)
    => /\ \A d \in BankDenoms \ {arg.denom} : Aggregated(arg, res.out.positions, d)
       /\ AggregatedAs(arg, res.out.positions, arg.denom,
                       CollateralAmountOf(arg, arg.denom) - arg.amount,
                       DebtAmountOf(arg, arg.denom))
       /\ res.out.val = TRUE
              <=> \/ DebtValue(res.out.positions) = 0
                  \/ LiqWeighted(res.out.positions) >= DebtValue(res.out.positions)

\* a withdrawal allowed although it leaves the user above max LTV
C19_Witness ==
    /\ WithdrawCall /\ res.out.ok /\ res.out.val = TRUE
    /\ arg.amount > 0
    /\ DebtValue(res.out.positions) > 0
    /\ LtvWeighted(res.out.positions) < DebtValue(res.out.positions)
    /\ LiqWeighted(res.out.positions) >= DebtValue(res.out.positions)

\* C20: the borrow check returns true if and only if, with the borrow amount
\* added to the debt of the named denom, the total debt is zero or max_ltv_hf
\* = sum(collateral_value * max_ltv) / total_debt_value is >= 1; a borrow that
\* brings the user exactly to max LTV is allowed.
C20_BorrowJudgedByMaxLtv ==
    (BorrowCall /\ res.out.ok)
    => /\ \A d \in BankDenoms \ {arg.denom} : Aggregated(arg, res.out.positions, d)
       /\ res.out.positions[arg.denom].some
       /\ res.out.positions[arg.denom].debt_amount
              = arg.amount + (IF HasPosition(arg, arg.denom)
                              THEN DebtAmountOf(arg, arg.denom) ELSE 0)
       /\ res.out.positions[arg.denom].collateral_amount
              = (IF HasPosition(arg, arg.denom)
                 THEN CollateralAmountOf(arg, arg.denom) ELSE 0)
       /\ res.out.val = TRUE
              <=> \/ DebtValue(res.out.positions) = 0
                  \/ LtvWeighted(res.out.positions) >= DebtValue(res.out.positions)
       /\ (/\ DebtValue(res.out.positions) > 0
           /\ LtvWeighted(res.out.positions) = DebtValue(res.out.positions))
              => res.out.val = TRUE

\* a borrow that brings the user exactly to max LTV
C20_Witness ==
    /\ BorrowCall /\ res.out.ok /\ res.out.val = TRUE
    /\ arg.amount > 0
    /\ DebtValue(res.out.positions) > 0
    /\ LtvWeighted(res.out.positions) = DebtValue(res.out.positions)

\* the underlying debt of the user's debt entry in the denom
UnderlyingDebtOf(a, d) == (a.DEBTS[d] * a.MARKETS[d].borrow_index) \div DecimalFractional

\* no collateral of the user is large enough to overflow the sums of values
SmallCollateral(a) == \A d \in BankDenoms : CollateralAmountOf(a, d) < BigAmount

\* C21: in the map of get_user_positions_map (returned by assert_liquidatable)
\* the debt amount of a denom is max(underlying_debt - uncollateralized loan
\* limit, 0): a debt below the limit counts as zero and yields neither a
\* negative value nor an error, and a denom without a debt entry has debt zero.
C21_DebtFlooredAtZero ==
    /\ (LiquidatableCall /\ res.out.ok)
       => \A d \in BankDenoms :
              res.out.positions[d].some
              => /\ res.out.positions[d].debt_amount >= 0
                 /\ arg.DEBTS[d] = None => res.out.positions[d].debt_amount = 0
                 /\ arg.DEBTS[d] # None
                        => /\ UnderlyingDebtOf(arg, d) <= arg.limit[d]
                                  => res.out.positions[d].debt_amount = 0
                           /\ UnderlyingDebtOf(arg, d) > arg.limit[d]
                                  => res.out.positions[d].debt_amount
                                         = UnderlyingDebtOf(arg, d) - arg.limit[d]
    /\ (LiquidatableCall /\ Aggregates(arg) /\ SmallCollateral(arg)) => res.out.ok

\* a debt entry below the uncollateralized loan limit, counted as zero
C21_Witness ==
    /\ LiquidatableCall /\ res.out.ok
    /\ \E d \in BankDenoms :
           /\ arg.DEBTS[d] # None
           /\ UnderlyingDebtOf(arg, d) > 0
           /\ UnderlyingDebtOf(arg, d) < arg.limit[d]
           /\ res.out.positions[d].debt_amount = 0

\* the user's collateral entry in the denom is stored and disabled
Disabled(a, d) == a.COLLATERALS[d].some /\ ~a.COLLATERALS[d].enabled

\* the user's records with the ma token balance of every disabled collateral
\* replaced by `balance`
WithDisabledBalance(a, balance) ==
    [a EXCEPT !.ma_balance = [d \in BankDenoms |->
                                 IF Disabled(a, d) THEN balance ELSE a.ma_balance[d]]]

\* C22: in the map of get_user_positions_map the collateral amount of a denom
\* is zero unless a collateral entry exists for the user and is enabled (then
\* it is the underlying amount of the ma token balance); a disabled collateral
\* contributes nothing to the user's health whatever its balance: each guard
\* returns what it returns for the same user with that balance at zero or at
\* any other amount.
C22_DisabledCollateralCountsZero ==
    /\ (LiquidatableCall /\ res.out.ok)
       => \A d \in BankDenoms :
              res.out.positions[d].some
              => /\ ~(arg.COLLATERALS[d].some /\ arg.COLLATERALS[d].enabled)
                        => res.out.positions[d].collateral_amount = 0
                 /\ (arg.COLLATERALS[d].some /\ arg.COLLATERALS[d].enabled)
                        => res.out.positions[d].collateral_amount
                               = (arg.ma_balance[d] * arg.MARKETS[d].liquidity_index)
                                     \div DecimalFractional
    /\ LiquidatableCall
       => \A b \in {0, 1, BigAmount} :
              res.out = assert_liquidatable(WithDisabledBalance(arg, b))
    /\ WithdrawCall
       => \A b \in {0, 1, BigAmount} :
              res.out = assert_below_liq_threshold_after_withdraw(
                            WithDisabledBalance(arg, b), arg.denom, arg.amount)
    /\ BorrowCall
       => \A b \in {0, 1, BigAmount} :
              res.out = assert_below_max_ltv_after_borrow(
                            WithDisabledBalance(arg, b), arg.denom, arg.amount)

\* a user found liquidatable although a disabled collateral has a balance
C22_Witness ==
    /\ LiquidatableCall /\ res.out.ok /\ res.out.val = TRUE
    /\ \E d \in BankDenoms :
           /\ Disabled(arg, d) /\ arg.ma_balance[d] > 0
           /\ res.out.positions[d].collateral_amount = 0

\* C23: the key set of the map of get_user_positions_map (returned by
\* assert_liquidatable) is exactly the union of the denoms with a stored
\* collateral entry and the denoms with a stored debt entry of the user; a
\* denom with both has one entry, carrying both its collateral and its debt.
C23_KeysAreUnionOfEntries ==
    (LiquidatableCall /\ res.out.ok)
    => /\ {d \in BankDenoms : res.out.positions[d].some}
              = {d \in BankDenoms : arg.COLLATERALS[d].some}
                    \cup {d \in BankDenoms : arg.DEBTS[d] # None}
       /\ \A d \in BankDenoms :
              res.out.positions[d].some
              => /\ res.out.positions[d].denom = d
                 /\ res.out.positions[d].collateral_amount = CollateralAmountOf(arg, d)
                 /\ res.out.positions[d].debt_amount = DebtAmountOf(arg, d)

\* one denom with collateral and debt, the other with a debt entry only
C23_Witness ==
    /\ LiquidatableCall /\ res.out.ok
    /\ \E d \in BankDenoms :
           /\ arg.COLLATERALS[d].some /\ arg.DEBTS[d] # None
           /\ res.out.positions[d].collateral_amount > 0
           /\ res.out.positions[d].debt_amount > 0
           /\ \E o \in BankDenoms \ {d} :
                  /\ ~arg.COLLATERALS[o].some /\ arg.DEBTS[o] # None
                  /\ res.out.positions[o].some
                  /\ res.out.positions[o].debt_amount > 0

\* a denom in which the user has a position has no market
MarketMissing(a) == \E d \in BankDenoms : HasPosition(a, d) /\ ~a.MARKETS[d].some

\* C24: if a denom of the user's position set has no market configuration,
\* get_user_positions_map fails, and with it each of the three guards: the
\* call returns the not-found error of the load and no map, neither defaulting
\* the missing risk parameters nor leaving the denom out.
C24_MissingMarketFails ==
    ((LiquidatableCall \/ WithdrawCall \/ BorrowCall) /\ MarketMissing(arg))
    => /\ ~res.out.ok
       /\ res.out.err = "NotFound"
       /\ res.out.positions = NoPositions
       /\ ~get_user_positions_map(arg).ok

\* a withdrawal within the collateral of a denom with a market, refused
\* because the user's debt is in a denom without one
C24_Witness ==
    /\ WithdrawCall /\ MarketMissing(arg)
    /\ arg.MARKETS[arg.denom].some
    /\ arg.amount > 0 /\ arg.amount <= CollateralAmountOf(arg, arg.denom)
    /\ ~res.out.ok /\ res.out.err = "NotFound"

ComputeHealthCall == res.f = "compute_position_health"

\* the sum of amount * price, in Decimal atomics, over the positions that are
\* not marked uncollateralized
CollateralizedDebtValue(ps) ==
    SumOver([d \in BankDenoms |->
                IF ps[d].some /\ ~ps[d].uncollateralized_debt
                THEN ps[d].debt_amount * ps[d].asset_price ELSE 0], BankDenoms)
CollateralizedCollateralValue(ps) ==
    SumOver([d \in BankDenoms |->
                IF ps[d].some /\ ~ps[d].uncollateralized_debt
                THEN ps[d].collateral_amount * ps[d].asset_price ELSE 0], BankDenoms)
CollateralValue(ps) ==
    SumOver([d \in BankDenoms |->
                IF ps[d].some THEN ps[d].collateral_amount * ps[d].asset_price ELSE 0],
            BankDenoms)

OtherOrder(a) == [a EXCEPT !.order = <<a.order[2], a.order[1]>>]

\* both calls fail, or both return the same value
SameResult(r1, r2) == r1.ok = r2.ok /\ (r1.ok => r1 = r2)

\* C26: what the health evaluation returns (the totals, the weighted sums, the
\* health factors, the liquidatable and above-max-LTV verdicts) is the same
\* for either order in which the positions are enumerated, and it fails in
\* one order exactly when it fails in the other.
C26_OrderIndependent ==
    /\ LiquidatableCall => SameResult(res.out, assert_liquidatable(OtherOrder(arg)))
    /\ WithdrawCall
       => SameResult(res.out,
              assert_below_liq_threshold_after_withdraw(OtherOrder(arg),
                                                        arg.denom, arg.amount))
    /\ BorrowCall
       => SameResult(res.out,
              assert_below_max_ltv_after_borrow(OtherOrder(arg), arg.denom, arg.amount))
    /\ ComputeHealthCall
       => /\ res.positions = PositionsOf(OtherOrder(arg))
          /\ SameResult(res.out,
                 compute_position_health(res.positions, OtherOrder(arg).order))

\* two positions with collateral and debt, evaluated to a Borrowing health
C26_Witness ==
    /\ ComputeHealthCall /\ res.out.ok
    /\ \A d \in BankDenoms :
           /\ res.positions[d].some
           /\ res.positions[d].collateral_amount > 0
           /\ res.positions[d].debt_amount > 0
    /\ res.out.val.total_debt_value > 0
    /\ res.out = compute_position_health(res.positions, OtherOrder(arg).order)

QueryAt(t, u) == query_user_unclaimed_rewards(Store, Querier(TRUE), t, u)

\* an incentive with non-zero emission is active at t for a denom in which u
\* holds collateral
EarningAt(u, t) ==
    \E d \in Denoms :
        /\ user_collateral[u][d] > 0
        /\ ASSET_INCENTIVES[d].emission_per_second > 0
        /\ ASSET_INCENTIVES[d].start_time <= t
        /\ t < ASSET_INCENTIVES[d].start_time + ASSET_INCENTIVES[d].duration

\* the window of such an incentive overlaps the block times t1..t2
EarningBetween(u, t1, t2) ==
    \E d \in Denoms :
        /\ user_collateral[u][d] > 0
        /\ ASSET_INCENTIVES[d].emission_per_second > 0
        /\ ASSET_INCENTIVES[d].start_time < t2
        /\ t1 < ASSET_INCENTIVES[d].start_time + ASSET_INCENTIVES[d].duration

\* the amounts of a query at t and of a query one second later, when both
\* succeed: never less later, and more later when the user is earning at t
MoreLater(q1, q2, earning) ==
    (q1.ok /\ q2.ok) => (q1.val <= q2.val /\ (earning => q1.val < q2.val))

\* never less later, and more later only when a window overlaps the two times
MoreLaterOnlyIf(q1, q2, earning) ==
    (q1.ok /\ q2.ok) => (q1.val <= q2.val /\ (q1.val < q2.val => earning))

C28_UserIndexMonotoneAndBounded ==
    /\ [](\A u \in Users, d \in Denoms :
              USER_ASSET_INDICES[u][d] <= ASSET_INCENTIVES[d].index)
    /\ [][\A u \in Users, d \in Denoms :
              USER_ASSET_INDICES'[u][d] >= USER_ASSET_INDICES[u][d]]_vars

\* a settlement has moved the index of a user up to the advanced index of the
\* incentive a second time
C28_Witness ==
    /\ last.op \in {"BalanceChange", "ClaimRewards"} /\ last.ok
    /\ ops >= 2
    /\ now = MaxTime
    /\ USER_ASSET_INDICES[last.user]["asset"] = ASSET_INCENTIVES["asset"].index
    /\ ASSET_INCENTIVES["asset"].last_updated = MaxTime
    /\ ASSET_INCENTIVES["asset"].index > DecimalFractional

\* start_time + duration of the call's incentive
EndOf(a) == a.asset_incentive.start_time + a.asset_incentive.duration

\* C29: once the last_updated of an incentive has reached start_time +
\* duration, a settlement at any block time succeeds without changing the
\* index, and at a block time not before last_updated it leaves last_updated
\* at or past the end, so the incentive stays inert; and no index advance
\* comes from time outside [start_time, start_time + duration): the time past
\* the end and the time before the start add nothing.
C29_InertAfterEnd ==
    /\ (IndexCall /\ arg.asset_incentive.last_updated >= EndOf(arg))
       => /\ res.out.ok
          /\ res.out.val.index = arg.asset_incentive.index
          /\ arg.current_block_time >= arg.asset_incentive.last_updated
                 => res.out.val.last_updated >= EndOf(arg)
    /\ (IndexCall /\ res.out.ok /\ arg.asset_incentive.last_updated <= EndOf(arg)
            /\ EndOf(arg) <= arg.current_block_time)
       => res.out.val.index =
              update_asset_incentive_index(arg.asset_incentive, arg.total_amount_scaled,
                                           EndOf(arg)).val.index
    /\ (IndexCall /\ res.out.ok
            /\ arg.asset_incentive.last_updated <= arg.current_block_time
            /\ arg.current_block_time <= arg.asset_incentive.start_time)
       => res.out.val.index = arg.asset_incentive.index
    /\ (IndexCall /\ res.out.ok
            /\ arg.asset_incentive.last_updated <= arg.asset_incentive.start_time
            /\ arg.asset_incentive.start_time <= arg.current_block_time)
       => res.out.val.index =
              update_asset_incentive_index(
                  [arg.asset_incentive EXCEPT !.last_updated = arg.asset_incentive.start_time],
                  arg.total_amount_scaled, arg.current_block_time).val.index

\* an incentive with emission and supply, last updated at or after its end,
\* is settled at a later block time: the index stays
C29_Witness ==
    /\ IndexCall /\ res.out.ok
    /\ arg.asset_incentive.duration > 0
    /\ arg.asset_incentive.last_updated >= EndOf(arg)
    /\ arg.current_block_time > arg.asset_incentive.last_updated
    /\ arg.asset_incentive.emission_per_second > 0 /\ arg.total_amount_scaled > 0
    /\ res.out.val.index = arg.asset_incentive.index
    /\ res.out.val.last_updated = arg.current_block_time

RoutesCall == res.f \in {"query_routes", "query_routes next"}

\* the key of an entry of a page
KeyOf(r) == <<r.denom_in, r.denom_out>>
\* the stored keys after a cursor
KeysAfter(a, start_after) ==
    {k \in DOMAIN a.routes : ~start_after.some \/ key_less(start_after.key, k)}
\* limit, the default limit when none is given, capped at the maximum limit
EffectiveLimit(a) ==
    IF a.limit = None THEN DEFAULT_LIMIT
    ELSE IF a.limit > MAX_LIMIT THEN MAX_LIMIT ELSE a.limit
Ascending(items) ==
    \A i \in 1..Len(items) : \A j \in 1..Len(items) :
        i < j => key_less(KeyOf(items[i]), KeyOf(items[j]))

DistributeCall == res.f = "distribute_rewards"
Distributable(a) == a.denom \in {a.config.safety_fund_denom, a.config.fee_collector_denom}

\* C31: distribute_rewards rejects a denom that is neither the safety-fund
\* denom nor the fee-collector denom with AssetNotEnabledForDistribution and
\* without a message, whatever the collaborators answer; a call that succeeds
\* emits one transfer of the denom, to the safety fund when the denom is the
\* safety-fund denom and to the fee collector otherwise; and a call for an
\* accepted denom fails only when a collaborator's query fails.
C31_DistributeRejectsOtherDenoms ==
    DistributeCall
    => /\ ~Distributable(arg)
              => /\ ~res.out.ok
                 /\ res.out.err = "AssetNotEnabledForDistribution"
                 /\ res.out.messages = <<>>
       /\ res.out.ok
              => /\ Distributable(arg)
                 /\ Len(res.out.messages) = 1
                 /\ res.out.messages[1].amount.denom = arg.denom
                 /\ res.out.messages[1].to_address =
                        IF arg.denom = arg.config.safety_fund_denom
                        THEN "SafetyFund" ELSE "FeeCollector"
       /\ (Distributable(arg) /\ ~res.out.ok)
              => /\ res.out.err = "QueryError"
                 /\ ~arg.address_provider_up \/ (arg.amount = None /\ ~arg.bank_up)

\* a denom that is not distributable is rejected although the address
\* provider does not answer
C31_Witness ==
    /\ DistributeCall /\ ~Distributable(arg)
    /\ ~arg.address_provider_up
    /\ arg.config.safety_fund_denom # arg.config.fee_collector_denom
    /\ res.out.err = "AssetNotEnabledForDistribution"
    /\ res.out.messages = <<>>

\* the clamped window of the call's inputs
TimeStartOf(a) == Max(a.asset_incentive.start_time, a.asset_incentive.last_updated)
TimeEndOf(a) == Min(a.current_block_time, EndOf(a))

\* C32: whenever update_asset_incentive_index is called with last_updated <=
\* now and its guard passes, time_start <= time_end: compute_asset_incentive_index
\* does not fail on the order of the two times (it succeeds on them with an
\* emission of zero), and the call fails only when the emission of the window
\* or the new index overflows.
C32_WindowIsOrdered ==
    (/\ IndexCall
     /\ arg.asset_incentive.last_updated <= arg.current_block_time
     /\ index_advances(arg.asset_incentive, arg.total_amount_scaled, arg.current_block_time))
    => /\ TimeStartOf(arg) <= TimeEndOf(arg)
       /\ compute_asset_incentive_index(0, 0, 1, TimeStartOf(arg), TimeEndOf(arg)) = Ok(0)
       /\ ~res.out.ok
              => \/ arg.asset_incentive.emission_per_second
                        * (TimeEndOf(arg) - TimeStartOf(arg)) > Uint128Max
                 \/ arg.asset_incentive.index
                        + (arg.asset_incentive.emission_per_second
                               * (TimeEndOf(arg) - TimeStartOf(arg)) * DecimalFractional)
                          \div arg.total_amount_scaled > Uint128Max

\* an incentive of duration 0, last updated before its start, is settled
\* after it: the guard passes on an empty window
C32_Witness ==
    /\ IndexCall /\ res.out.ok
    /\ arg.asset_incentive.duration = 0
    /\ arg.asset_incentive.last_updated < arg.asset_incentive.start_time
    /\ arg.asset_incentive.start_time < arg.current_block_time
    /\ index_advances(arg.asset_incentive, arg.total_amount_scaled, arg.current_block_time)
    /\ TimeStartOf(arg) = TimeEndOf(arg)
    /\ res.out.val.index = arg.asset_incentive.index

\* the user index and the incentive the settle call leaves in the store
UserIndexAfter == res.out.store.USER_ASSET_INDICES[FnUser][FnDenom]
IncentiveAfter == res.out.store.ASSET_INCENTIVES[FnDenom]

\* C33: after a successful settlement of a user with a non-zero collateral
\* balance, the user's stored index (absent read as zero) equals the stored
\* index of the AssetIncentive; the entry is written, with that index, only
\* when it differs from the user's previous index (absent read as zero), and
\* is otherwise left as it was, absent included.
C33_UserIndexFollowsIncentive ==
    (SettleCall /\ res.out.ok /\ arg.user_amount_scaled > 0)
    => /\ unwrap_or_zero(UserIndexAfter) = IncentiveAfter.index
       /\ IncentiveAfter = res.out.asset_incentive
       /\ IF IncentiveAfter.index # unwrap_or_zero(arg.user_asset_index)
          THEN UserIndexAfter = IncentiveAfter.index
          ELSE UserIndexAfter = arg.user_asset_index

\* a user without an index entry is settled while the incentive's index is
\* zero: the entry stays absent
C33_Witness ==
    /\ SettleCall /\ res.out.ok /\ arg.user_amount_scaled > 0
    /\ arg.user_asset_index = None
    /\ IncentiveAfter.index = 0
    /\ IncentiveAfter.last_updated = arg.current_block_time
    /\ UserIndexAfter = None

\* the rewards the settle call's inputs newly accrue
NewlyAccruedBy(a) ==
    compute_new_user_unclaimed_rewards(FnStore(a), FnQuerier(a), a.current_block_time,
        FnUser, FnDenom, a.asset_incentive, FnCollaterals(a)).rewards
RewardsAfter == res.out.store.USER_UNCLAIMED_REWARDS[FnUser][FnDenom]

\* C34: a successful update_user_rewards returns the previous rewards (zero
\* when none are stored), the previous rewards plus the newly accrued ones,
\* and the advanced incentive (the incentive as it was for a zero balance);
\* it stores that sum when clear_rewards is false and zero when clear_rewards
\* is true, the returned sum being the same in both cases.
C34_ReturnsPreviousAndCurrent ==
    (SettleCall /\ res.out.ok)
    => /\ res.out.previous_rewards = unwrap_or_zero(arg.user_unclaimed_rewards)
       /\ res.out.current_rewards = res.out.previous_rewards + NewlyAccruedBy(arg)
       /\ res.out.asset_incentive =
              IF arg.user_amount_scaled = 0 THEN arg.asset_incentive
              ELSE update_asset_incentive_index(arg.asset_incentive, arg.total_amount_scaled,
                                                arg.current_block_time).val
       /\ RewardsAfter = IF arg.clear_rewards THEN 0 ELSE res.out.current_rewards
       /\ res.out.current_rewards =
              update_user_rewards(FnStore(arg), FnQuerier(arg), arg.current_block_time,
                  FnUser, FnDenom, arg.asset_incentive, FnCollaterals(arg),
                  ~arg.clear_rewards).current_rewards

\* a claim settlement with stored and newly accrued rewards: the store is
\* zeroed and the sum returned
C34_Witness ==
    /\ SettleCall /\ res.out.ok /\ arg.clear_rewards
    /\ res.out.previous_rewards > 0
    /\ NewlyAccruedBy(arg) > 0
    /\ res.out.current_rewards = res.out.previous_rewards + NewlyAccruedBy(arg)
    /\ RewardsAfter = 0

GuardNames == {"assert_liquidatable", "assert_below_liq_threshold_after_withdraw",
               "assert_below_max_ltv_after_borrow"}

Credited == SumOver([u \in Users |-> unwrap_or_zero(USER_UNCLAIMED_REWARDS[u]["asset"])],
                    Users)
\* the seconds of [start_time, start_time + duration) elapsed up to t
ActiveSeconds(a, t) ==
    IF t <= a.start_time THEN 0 ELSE Min(t, a.start_time + a.duration) - a.start_time

\* C36 as stated: at a constant supply, with the holders settled at the
\* current index to begin with, the rewards credited to all holders by any
\* sequence of settlements up to now never exceed emission_per_second times
\* the seconds of the incentive's window elapsed up to now.
C36_AsStated ==
    Credited <= ASSET_INCENTIVES["asset"].emission_per_second
                    * ActiveSeconds(ASSET_INCENTIVES["asset"], now)

\* the store after update_user_rewards has been run for u on `store` at the
\* block time and the balances of the state (a failed run writes nothing)
StoreAfterSettle(store, u) ==
    update_user_rewards(store, Querier(TRUE), now, u, "asset",
        store.ASSET_INCENTIVES["asset"],
        SomeCollaterals(user_collateral[u]["asset"], collateral_total_scaled["asset"]),
        FALSE).store
StoreAfterBoth(first, second) == StoreAfterSettle(StoreAfterSettle(Store, first), second)

\* C38: when the two holders of a denom are settled at the same block time
\* with unchanged balances and supply, the rewards credited to each and the
\* stored incentive (in all, the store the two settlements leave) are the
\* same whichever settlement runs first.
C38_SettlementOrderIndependent ==
    StoreAfterBoth("u1", "u2") = StoreAfterBoth("u2", "u1")

\* both holders have been settled at this block time, the second right after
\* the first advanced the index, and both were credited
C38_Witness ==
    /\ last.op = "Settle" /\ last.ok /\ ops >= 2 /\ now > 0
    /\ ASSET_INCENTIVES["asset"].last_updated = now
    /\ \A u \in Users :
           /\ user_collateral[u]["asset"] > 0
           /\ USER_ASSET_INDICES[u]["asset"] = ASSET_INCENTIVES["asset"].index
           /\ unwrap_or_zero(USER_UNCLAIMED_REWARDS[u]["asset"]) > 0
    /\ StoreAfterBoth("u1", "u2") = Store

\* the block times of a later settlement
LaterTimes(a) == a.current_block_time..(a.current_block_time + 2)
\* the incentive advanced once more, from the call's result to block time t
ThenTo(t) == update_asset_incentive_index(res.out.val, arg.total_amount_scaled, t)
\* the incentive advanced at once from the call's inputs to block time t
AtOnceTo(t) == update_asset_incentive_index(arg.asset_incentive, arg.total_amount_scaled, t)

BorrowAmounts == {0, 1, 2, 3, 5, 8}
BorrowOf(a) == assert_below_max_ltv_after_borrow(arg, arg.denom, a)

\* C39: in a fixed state assert_below_max_ltv_after_borrow is monotone in the
\* borrow amount: when it returns false for an amount it returns false for
\* every larger amount of the denom for which it returns at all, and when it
\* returns true it returns true for every smaller amount.
C39_BorrowMonotoneInAmount ==
    (BorrowCall /\ res.out.ok)
    => \A a \in BorrowAmounts :
           BorrowOf(a).ok
           => /\ (a >= arg.amount /\ ~res.out.val) => ~BorrowOf(a).val
              /\ (a <= arg.amount /\ res.out.val) => BorrowOf(a).val

\* a borrow of a positive amount is approved and a larger one is refused
C39_Witness ==
    /\ BorrowCall /\ res.out.ok /\ res.out.val
    /\ arg.amount > 0
    /\ BorrowOf(0).ok /\ BorrowOf(0).val
    /\ \E a \in BorrowAmounts : a > arg.amount /\ BorrowOf(a).ok /\ ~BorrowOf(a).val

\* C40: for a denom whose collateral entry of the user is stored and disabled
\* the withdraw check counts the collateral amount as zero: once the
\* positions of the user are read, a check of a positive amount of the denom
\* fails with the overflow error of checked_sub, and a check of amount zero
\* returns the health verdict of the positions with no collateral in the
\* denom, whatever the ma token balance.
C40_DisabledCollateralWithdraw ==
    (WithdrawCall /\ Disabled(arg, arg.denom) /\ get_user_positions_map(arg).ok)
    => /\ get_user_positions_map(arg).val[arg.denom].collateral_amount = 0
       /\ arg.amount > 0 => (~res.out.ok /\ res.out.err = "Overflow")
       /\ arg.amount = 0
              => /\ res.out = health_after_withdraw(get_user_positions_map(arg).val, arg.order)
                 /\ res.out.ok = assert_liquidatable(arg).ok
                 /\ res.out.ok => /\ res.out.val = ~assert_liquidatable(arg).val
                                  /\ res.out.positions[arg.denom].collateral_amount = 0
                 /\ \A b \in {0, 1, BigAmount} :
                        res.out = assert_below_liq_threshold_after_withdraw(
                                      WithDisabledBalance(arg, b), arg.denom, 0)

\* a disabled collateral with a balance: the check of a positive amount fails
\* and the check of amount zero returns a verdict
C40_Witness ==
    /\ WithdrawCall /\ Disabled(arg, arg.denom)
    /\ arg.ma_balance[arg.denom] > 0
    /\ arg.amount > 0 /\ ~res.out.ok /\ res.out.err = "Overflow"
    /\ assert_below_liq_threshold_after_withdraw(arg, arg.denom, 0).ok

====
